---------------------------- MODULE Spec2Model ----------------------------
(***************************************************************************)
(* FlowSketch core pipeline: Text Parser -> Diagram Engine ->              *)
(* Specification Generator (src/backend/core/services).                    *)
(*                                                                         *)
(* Representation.  A Python str is a sequence of tokens, each token a     *)
(* TLA+ string: the characters of names, labels and ids are one-character  *)
(* tokens, the fixed pieces of text a renderer emits are whole-word        *)
(* tokens.  An Optional[T] is a sequence of length 0 (None) or 1.  A dict  *)
(* is a function (node_id_map) or, where insertion order is read, a        *)
(* sequence of <<key, value>> pairs.  A float confidence is an integer     *)
(* number of hundredths.  Layout coordinates are integers; the             *)
(* force-directed layout, which the code runs on floats, runs here on      *)
(* fixed-point tenths of a unit.                                           *)
(***************************************************************************)
EXTENDS Integers, Sequences, FiniteSets, TLC

VARIABLES
    node_counter,   \* DiagramEngine.node_counter
    node_id_map,    \* DiagramEngine.node_id_map: entity name -> node id
    content,        \* argument of the latest generate_diagram call (Optional)
    outcome,        \* what that call returned or raised
    entry_counter,  \* node_counter as that call found it on entry
    threads,        \* concurrent generate_diagram calls on the one engine
    spec_request,   \* arguments of the latest generate_specification call
    specification,  \* what that call returned or raised
    text,           \* argument of the latest parse_text call (Optional)
    parsed,         \* what that call returned or raised
    helper_call,    \* name and arguments of the latest call of a helper function
    helper_frame,   \* local variables of that call while its loop runs (Optional)
    helper_result   \* what that call returned (Optional)

engineVars == <<node_counter, node_id_map, content, outcome, entry_counter, threads>>

docVars == <<spec_request, specification>>

parseVars == <<text, parsed>>

helperVars == <<helper_call, helper_frame, helper_result>>

vars == <<engineVars, docVars, parseVars, helperVars>>

-----------------------------------------------------------------------------
(* Generic helpers                                                         *)

None == <<>>

Some(x) == <<x>>

IsNone(o) == Len(o) = 0

Range(s) == {s[i] : i \in 1..Len(s)}

Min(a, b) == IF a <= b THEN a ELSE b

Max(a, b) == IF a >= b THEN a ELSE b

Abs(a) == IF a < 0 THEN -a ELSE a

RECURSIVE Flatten(_)
\* "\n".join / list.extend: the concatenation of a sequence of sequences
Flatten(ss) == IF Len(ss) = 0 THEN <<>> ELSE Head(ss) \o Flatten(Tail(ss))

RECURSIVE SeqsUpTo(_, _)
\* all sequences over S of length <= n
SeqsUpTo(S, n) ==
    IF n = 0 THEN {<<>>}
    ELSE LET shorter == SeqsUpTo(S, n - 1)
         IN  shorter \cup {Append(s, x) : s \in shorter, x \in S}

DigitChars == <<"0", "1", "2", "3", "4", "5", "6", "7", "8", "9">>

RECURSIVE IntToStr(_)
\* str(n) for n >= 0, as a sequence of digit characters
IntToStr(n) ==
    IF n < 10 THEN <<DigitChars[n + 1]>>
    ELSE Append(IntToStr(n \div 10), DigitChars[(n % 10) + 1])

-----------------------------------------------------------------------------
(* Characters                                                              *)

Letters == {"A", "B", "C", "L", "S", "x"}

Digits == Range(DigitChars)

\* what \s matches among the tokens the model uses (the two indentation tokens
\* are runs of spaces)
Whitespace == {" ", "\t", "    ", "        "}

\* [a-zA-Z0-9]
IsAlnum(c) == c \in Letters \cup Digits

-----------------------------------------------------------------------------
(* text_parser.py value types                                              *)

EntityTypes == {"object", "process", "actor", "data", "system", "event"}

DiagramTypes == {"flowchart", "erd", "sequence", "class", "process"}

Entity(name, type, properties) ==
    [name |-> name, type |-> type, properties |-> properties]

Relationship(source, target, type, label) ==
    [source |-> source, target |-> target, type |-> type, label |-> label]

ParsedContent(entities, relationships, dtype, confidence, raw_text) ==
    [entities |-> entities, relationships |-> relationships,
     suggested_diagram_type |-> dtype, confidence |-> confidence,
     raw_text |-> raw_text]

-----------------------------------------------------------------------------
(* diagram_engine.py: configuration tables of DiagramEngine.__init__       *)

entity_shape_map ==
    [t \in EntityTypes |->
        CASE t = "object"  -> "rect"
          [] t = "process" -> "round"
          [] t = "actor"   -> "circle"
          [] t = "data"    -> "cylinder"
          [] t = "system"  -> "hexagon"
          [] t = "event"   -> "rhombus"]

\* self.entity_shape_map.get(entity.type.value, MermaidShapes.RECTANGLE).value
ShapeOf(t) == IF t \in DOMAIN entity_shape_map THEN entity_shape_map[t] ELSE "rect"

\* self.relationship_arrow_map.get(relationship.type, "-->")
ArrowOf(rtype) ==
    CASE rtype \in {"creates", "flows_to", "processes"}   -> "-->"
      [] rtype \in {"uses", "sends", "stores"}            -> "-.->"
      [] rtype \in {"contains", "triggers", "manages"}    -> "==>"
      [] rtype = "inherits"                               -> "---|>"
      [] rtype \in {"depends_on", "accesses"}             -> "..>"
      [] rtype = "receives"                               -> "<-.-"
      [] OTHER                                            -> "-->"

node_width == 120

node_height == 60

horizontal_spacing == 200

vertical_spacing == 100

margin == 50

-----------------------------------------------------------------------------
(* diagram_engine.py: node ids and labels                                  *)

\* the engine's per-call fields as one value threaded through the helpers
EngineState(counter, map) == [node_counter |-> counter, node_id_map |-> map]

EmptyMap == [n \in {} |-> <<>>]

\* entity_name.replace(" ", "_")
ReplaceSpaces(name) == [i \in 1..Len(name) |-> IF name[i] = " " THEN "_" ELSE name[i]]

\* re.sub(r"[^a-zA-Z0-9]", "", entity_name.replace(" ", "_"))
CleanId(name) == SelectSeq(ReplaceSpaces(name), IsAlnum)

\* an id made of the cleaned name alone
MakeNodeId_Unnumbered(name, counter) == CleanId(name)

\* f"{clean_id}_{self.node_counter}"
MakeNodeId(name, counter) == CleanId(name) \o <<"_">> \o IntToStr(counter)

\* _get_or_create_node_id: the engine state after the call and the id returned
GetOrCreateNodeId(st, entity_name) ==
    IF entity_name \notin DOMAIN st.node_id_map
    THEN LET counter == st.node_counter + 1
             node_id == MakeNodeId(entity_name, counter)
         IN  [st |-> EngineState(counter, (entity_name :> node_id) @@ st.node_id_map),
              id |-> node_id]
    ELSE [st |-> st, id |-> st.node_id_map[entity_name]]

RECURSIVE LStrip(_)
LStrip(s) == IF Len(s) > 0 /\ Head(s) \in Whitespace THEN LStrip(Tail(s)) ELSE s

RECURSIVE RStrip(_)
RStrip(s) ==
    IF Len(s) > 0 /\ s[Len(s)] \in Whitespace THEN RStrip(SubSeq(s, 1, Len(s) - 1)) ELSE s

\* str.strip()
Strip(s) == RStrip(LStrip(s))

RECURSIVE CollapseWhitespace(_)
\* re.sub(r"\s+", " ", s): every maximal run of whitespace becomes one space
CollapseWhitespace(s) ==
    IF Len(s) = 0 THEN <<>>
    ELSE IF Head(s) \in Whitespace
         THEN <<" ">> \o CollapseWhitespace(LStrip(s))
         ELSE <<Head(s)>> \o CollapseWhitespace(Tail(s))

MaxLabelLen == 30

KeptLabelLen == 27

\* _clean_label without the cut at 30 characters
CleanLabel_Uncut(label) == CollapseWhitespace(Strip(label))

\* _clean_label
CleanLabel(label) ==
    LET cleaned == CollapseWhitespace(Strip(label))
    IN  IF Len(cleaned) > MaxLabelLen
        THEN SubSeq(cleaned, 1, KeptLabelLen) \o <<".", ".", ".">>
        ELSE cleaned

Position(x, y) == [x |-> x, y |-> y]

Node(id, label, shape, entity_type, properties, position) ==
    [id |-> id, label |-> label, shape |-> shape, entity_type |-> entity_type,
     properties |-> properties, position |-> position]

Edge(source_id, target_id, label, arrow_type, relationship_type) ==
    [source_id |-> source_id, target_id |-> target_id, label |-> label,
     arrow_type |-> arrow_type, relationship_type |-> relationship_type]

\* the body of the loop of _generate_nodes for one entity
NodeOfEntity(st, entity) ==
    LET r == GetOrCreateNodeId(st, entity.name)
    IN  [st |-> r.st,
         node |-> Node(r.id, CleanLabel(entity.name), ShapeOf(entity.type),
                       entity.type, entity.properties, None)]

RECURSIVE GenerateNodesFrom(_, _, _)
GenerateNodesFrom(st, entities, nodes) ==
    IF Len(entities) = 0 THEN [st |-> st, nodes |-> nodes]
    ELSE LET r == NodeOfEntity(st, Head(entities))
         IN  GenerateNodesFrom(r.st, Tail(entities), Append(nodes, r.node))

\* _generate_nodes
GenerateNodes(st, entities) == GenerateNodesFrom(st, entities, <<>>)

\* the body of the loop of _generate_edges for one relationship
EdgeOfRelationship(st, relationship) ==
    LET s == GetOrCreateNodeId(st, relationship.source)
        t == GetOrCreateNodeId(s.st, relationship.target)
        label == IF Len(relationship.label) > 0 THEN CleanLabel(relationship.label)
                 ELSE <<>>
    IN  [st |-> t.st,
         edge |-> Edge(s.id, t.id, label, ArrowOf(relationship.type), relationship.type)]

RECURSIVE GenerateEdgesFrom(_, _, _)
GenerateEdgesFrom(st, relationships, edges) ==
    IF Len(relationships) = 0 THEN [st |-> st, edges |-> edges]
    ELSE LET r == EdgeOfRelationship(st, Head(relationships))
         IN  GenerateEdgesFrom(r.st, Tail(relationships), Append(edges, r.edge))

\* _generate_edges
GenerateEdges(st, relationships) == GenerateEdgesFrom(st, relationships, <<>>)

-----------------------------------------------------------------------------
(* diagram_engine.py: Mermaid syntax generation.  The syntax is the        *)
(* sequence of its lines, "\n".join(lines) left unjoined.                  *)

Indent == "    "

Indent2 == "        "

\* _get_shape_syntax
ShapeSyntax(shape, label) ==
    CASE shape = "rect"     -> <<"[">> \o label \o <<"]">>
      [] shape = "round"    -> <<"(">> \o label \o <<")">>
      [] shape = "circle"   -> <<"((">> \o label \o <<"))">>
      [] shape = "rhombus"  -> <<"{">> \o label \o <<"}">>
      [] shape = "hexagon"  -> <<"{{">> \o label \o <<"}}">>
      [] shape = "cylinder" -> <<"[(">> \o label \o <<")]">>
      [] shape = "cloud"    -> <<">>">> \o label \o <<"]">>
      [] OTHER              -> <<"[">> \o label \o <<"]">>

\* color_map.get(node.entity_type, "#f5f5f5") of _generate_flowchart_styling
FlowchartColor(t) ==
    CASE t = "object"  -> "#e1f5fe"
      [] t = "process" -> "#f3e5f5"
      [] t = "actor"   -> "#e8f5e8"
      [] t = "data"    -> "#fff3e0"
      [] t = "system"  -> "#fce4ec"
      [] t = "event"   -> "#f1f8e9"
      [] OTHER         -> "#f5f5f5"

\* _generate_flowchart_styling
FlowchartStyling(nodes) ==
    Flatten([i \in 1..Len(nodes) |->
        << <<Indent, "classDef", " ", nodes[i].entity_type, "Style", " ", "fill:",
             FlowchartColor(nodes[i].entity_type)>>,
           <<Indent, "class", " ">> \o nodes[i].id
               \o <<" ", nodes[i].entity_type, "Style">> >>])

ProcessColored == {"process", "data", "system"}

\* color_map of _generate_process_styling
ProcessColor(t) ==
    CASE t = "process" -> "#bbdefb"
      [] t = "data"    -> "#ffccbc"
      [] t = "system"  -> "#c8e6c9"

\* _generate_process_styling
ProcessStyling(nodes) ==
    Flatten([i \in 1..Len(nodes) |->
        IF nodes[i].entity_type \in ProcessColored
        THEN << <<Indent, "classDef", " ", nodes[i].entity_type, "Style", " ", "fill:",
                  ProcessColor(nodes[i].entity_type)>>,
                <<Indent, "class", " ">> \o nodes[i].id
                    \o <<" ", nodes[i].entity_type, "Style">> >>
        ELSE <<>>])

\* _convert_to_erd_relationship
ConvertToErdRelationship(rtype) ==
    CASE rtype = "contains"   -> "||--o{"
      [] rtype = "uses"       -> "}o--||"
      [] rtype = "creates"    -> "||--||"
      [] rtype = "depends_on" -> "}o..o{"
      [] OTHER                -> "||--||"

\* _convert_to_class_relationship
ConvertToClassRelationship(rtype) ==
    CASE rtype = "inherits"   -> "<|--"
      [] rtype = "uses"       -> "<--"
      [] rtype = "contains"   -> "*--"
      [] rtype = "depends_on" -> "<.."
      [] OTHER                -> "--"

\* _generate_flowchart_syntax
GenerateFlowchartSyntax(nodes, edges) ==
    << <<"flowchart", " ", "TD">> >>
    \o [i \in 1..Len(nodes) |->
          <<Indent>> \o nodes[i].id \o ShapeSyntax(nodes[i].shape, nodes[i].label)]
    \o [i \in 1..Len(edges) |->
          IF Len(edges[i].label) > 0
          THEN <<Indent>> \o edges[i].source_id \o <<" ", edges[i].arrow_type, "|">>
                   \o edges[i].label \o <<"|", " ">> \o edges[i].target_id
          ELSE <<Indent>> \o edges[i].source_id \o <<" ", edges[i].arrow_type, " ">>
                   \o edges[i].target_id]
    \o FlowchartStyling(nodes)

\* _generate_erd_syntax
GenerateErdSyntax(nodes, edges) ==
    LET IsErdEntity(n) == n.entity_type \in {"object", "data"}
        entities == SelectSeq(nodes, IsErdEntity)
        Attributes(n) ==
            IF Len(n.properties) > 0
            THEN [k \in 1..Len(n.properties) |->
                     <<Indent2, "string", " ", n.properties[k][1]>>]
            ELSE << <<Indent2, "string", " ", "id">> >>
    IN  << <<"erDiagram">> >>
        \o Flatten([i \in 1..Len(entities) |->
              << <<Indent>> \o entities[i].id \o <<" ", "{">> >>
              \o Attributes(entities[i])
              \o << <<Indent, "}">> >>])
        \o [i \in 1..Len(edges) |->
              <<Indent>> \o edges[i].source_id
                  \o <<" ", ConvertToErdRelationship(edges[i].relationship_type), " ">>
                  \o edges[i].target_id \o <<" ", ":", " ", "\"">>
                  \o edges[i].label \o <<"\"">>]

\* _generate_sequence_syntax
GenerateSequenceSyntax(nodes, edges) ==
    LET IsActor(n) == n.entity_type \in {"actor", "system"}
        actors == SelectSeq(nodes, IsActor)
    IN  << <<"sequenceDiagram">> >>
        \o [i \in 1..Len(actors) |->
              <<Indent, "participant", " ">> \o actors[i].id \o <<" ", "as", " ">>
                  \o actors[i].label]
        \o [i \in 1..Len(edges) |->
              <<Indent>> \o edges[i].source_id \o <<"->>+">> \o edges[i].target_id
                  \o <<":", " ">>
                  \o (IF Len(edges[i].label) > 0 THEN edges[i].label
                      ELSE <<"interaction">>)]

\* _generate_class_syntax
GenerateClassSyntax(nodes, edges) ==
    LET Members(n) ==
            [k \in 1..Len(n.properties) |->
                <<Indent2, "+", n.properties[k][1], " ", ":", " ", n.properties[k][2]>>]
    IN  << <<"classDiagram">> >>
        \o Flatten([i \in 1..Len(nodes) |->
              << <<Indent, "class", " ">> \o nodes[i].id \o <<" ", "{">> >>
              \o Members(nodes[i])
              \o << <<Indent, "}">> >>])
        \o [i \in 1..Len(edges) |->
              <<Indent>> \o edges[i].source_id
                  \o <<" ", ConvertToClassRelationship(edges[i].relationship_type), " ">>
                  \o edges[i].target_id]

\* _generate_process_syntax
GenerateProcessSyntax(nodes, edges) ==
    << <<"flowchart", " ", "LR">> >>
    \o [i \in 1..Len(nodes) |->
          IF nodes[i].entity_type = "data"
          THEN <<Indent>> \o nodes[i].id \o <<"[(">> \o nodes[i].label \o <<")]">>
          ELSE <<Indent>> \o nodes[i].id \o <<"[">> \o nodes[i].label \o <<"]">>]
    \o [i \in 1..Len(edges) |->
          IF Len(edges[i].label) > 0
          THEN <<Indent>> \o edges[i].source_id \o <<" ", "-->", " ", "|">>
                   \o edges[i].label \o <<"|", " ">> \o edges[i].target_id
          ELSE <<Indent>> \o edges[i].source_id \o <<" ", "-->", " ">>
                   \o edges[i].target_id]
    \o ProcessStyling(nodes)

\* _generate_mermaid_syntax
GenerateMermaidSyntax(diagram_type, nodes, edges) ==
    CASE diagram_type = "flowchart" -> GenerateFlowchartSyntax(nodes, edges)
      [] diagram_type = "erd"       -> GenerateErdSyntax(nodes, edges)
      [] diagram_type = "sequence"  -> GenerateSequenceSyntax(nodes, edges)
      [] diagram_type = "class"     -> GenerateClassSyntax(nodes, edges)
      [] diagram_type = "process"   -> GenerateProcessSyntax(nodes, edges)
      [] OTHER                      -> GenerateFlowchartSyntax(nodes, edges)

\* _generate_layout_config
GenerateLayoutConfig(diagram_type) ==
    [direction |-> CASE diagram_type \in {"sequence", "process"} -> "LR"
                     [] diagram_type = "erd" -> "TB"
                     [] OTHER -> "TD",
     theme |-> "default",
     background |-> "white"]

-----------------------------------------------------------------------------
(* diagram_engine.py: auto-layout.  A layout returns [ok, nodes, error]:   *)
(* the positioned nodes, or the exception that left it.                    *)

LayoutOk(nodes) == [ok |-> TRUE, nodes |-> nodes, error |-> ""]

LayoutRaises(error) == [ok |-> FALSE, nodes |-> <<>>, error |-> error]

\* Node(id=node.id, ..., position=Position(x, y)): the positioned copy
Positioned(node, x, y) ==
    Node(node.id, node.label, node.shape, node.entity_type, node.properties,
         Some(Position(x, y)))

NodeIds(nodes) == {nodes[i].id : i \in 1..Len(nodes)}

\* _build_adjacency_list
BuildAdjacencyList(nodes, edges) ==
    [id \in NodeIds(nodes) |->
        LET From(e) == e.source_id = id
            out == SelectSeq(edges, From)
        IN  [k \in 1..Len(out) |-> out[k].target_id]]

\* _find_root_nodes
FindRootNodes(nodes, edges) ==
    LET incoming == {edges[k].target_id : k \in 1..Len(edges)}
        IsRoot(n) == n.id \notin incoming
    IN  SelectSeq(nodes, IsRoot)

\* levels.get(node_id, 0)
LevelOf(levels, id) == IF id \in DOMAIN levels THEN levels[id] ELSE 0

\* the local variables of _assign_levels_bfs; queue holds <<node_id, level>> pairs
BfsFrame(queue, visited, levels) ==
    [queue |-> queue, visited |-> visited, levels |-> levels]

\* a loop body that puts a visited entry back at the end of the queue
BfsIteration_VisitedRequeued(f, adjacency) ==
    LET node_id == Head(f.queue)[1]
        level == Head(f.queue)[2]
        children == IF node_id \in DOMAIN adjacency THEN adjacency[node_id] ELSE <<>>
        Unseen(c) == c \notin f.visited \cup {node_id}
        fresh == SelectSeq(children, Unseen)
    IN  IF node_id \in f.visited
        THEN BfsFrame(Tail(f.queue) \o <<Head(f.queue)>>, f.visited, f.levels)
        ELSE BfsFrame(Tail(f.queue) \o [k \in 1..Len(fresh) |-> <<fresh[k], level + 1>>],
                      f.visited \cup {node_id},
                      (node_id :> level) @@ f.levels)

\* one iteration of the while loop of _assign_levels_bfs
BfsIteration(f, adjacency) ==
    LET node_id == Head(f.queue)[1]
        level == Head(f.queue)[2]
    IN  IF node_id \in f.visited
        THEN BfsFrame(Tail(f.queue), f.visited, f.levels)
        ELSE LET seen == f.visited \cup {node_id}
                 children == IF node_id \in DOMAIN adjacency
                             THEN adjacency[node_id] ELSE <<>>
                 Unseen(c) == c \notin seen
                 fresh == SelectSeq(children, Unseen)
             IN  BfsFrame(Tail(f.queue) \o [k \in 1..Len(fresh) |-> <<fresh[k], level + 1>>],
                          seen,
                          (node_id :> level) @@ f.levels)

RECURSIVE BfsLoop(_, _)
\* the while loop of _assign_levels_bfs
BfsLoop(f, adjacency) ==
    IF Len(f.queue) = 0 THEN f.levels
    ELSE BfsLoop(BfsIteration(f, adjacency), adjacency)

\* the locals of _assign_levels_bfs before the loop
BfsEntry(root_nodes) ==
    BfsFrame([k \in 1..Len(root_nodes) |-> <<root_nodes[k].id, 0>>], {}, EmptyMap)

\* _assign_levels_bfs
AssignLevelsBfs(root_nodes, adjacency) == BfsLoop(BfsEntry(root_nodes), adjacency)

\* list.index(x): position (from 0) of the first element equal to x
IndexOf(s, x) == (CHOOSE i \in 1..Len(s) : s[i] = x /\ \A j \in 1..(i - 1) : s[j] # x) - 1

\* root_nodes after "if not root_nodes: root_nodes = [nodes[0]]", for a
\* list of at least one node
RootNodesOrFirst(nodes, edges) ==
    LET roots == FindRootNodes(nodes, edges)
    IN  IF Len(roots) = 0 THEN <<nodes[1]>> ELSE roots

\* levels of the nodes as _apply_hierarchical_layout and _apply_process_layout find them
LayoutLevels(nodes, edges) ==
    AssignLevelsBfs(RootNodesOrFirst(nodes, edges), BuildAdjacencyList(nodes, edges))

\* nodes_at_level.index(node)
PositionInLevel(nodes, levels, node) ==
    LET SameLevel(n) == LevelOf(levels, n.id) = LevelOf(levels, node.id)
    IN  IndexOf(SelectSeq(nodes, SameLevel), node)

\* a placement that puts every level on the row of the roots
PlaceHierarchical_OneRow(nodes, levels) ==
    [i \in 1..Len(nodes) |->
        Positioned(nodes[i],
            margin + PositionInLevel(nodes, levels, nodes[i]) * horizontal_spacing,
            margin)]

\* the positioning loop of _apply_hierarchical_layout
PlaceHierarchical(nodes, levels) ==
    [i \in 1..Len(nodes) |->
        Positioned(nodes[i],
            margin + PositionInLevel(nodes, levels, nodes[i]) * horizontal_spacing,
            margin + LevelOf(levels, nodes[i].id) * vertical_spacing)]

\* _apply_hierarchical_layout; nodes[0] of an empty list raises IndexError
ApplyHierarchicalLayout(nodes, edges) ==
    IF Len(nodes) = 0 THEN LayoutRaises("IndexError")
    ELSE LayoutOk(PlaceHierarchical(nodes, LayoutLevels(nodes, edges)))

\* _apply_process_layout
ApplyProcessLayout(nodes, edges) ==
    LET levels == LayoutLevels(nodes, edges)
    IN  LayoutOk([i \in 1..Len(nodes) |->
            Positioned(nodes[i],
                margin + LevelOf(levels, nodes[i].id) * horizontal_spacing,
                margin + PositionInLevel(nodes, levels, nodes[i]) * vertical_spacing)])

\* _apply_sequence_layout
ApplySequenceLayout(nodes, edges) ==
    LET IsActor(n) == n.entity_type \in {"actor", "system"}
        NotActor(n) == ~IsActor(n)
        actors == SelectSeq(nodes, IsActor)
        other_nodes == SelectSeq(nodes, NotActor)
    IN  LayoutOk(
            [i \in 1..Len(actors) |->
                Positioned(actors[i], margin + (i - 1) * horizontal_spacing, margin)]
            \o [i \in 1..Len(other_nodes) |->
                Positioned(other_nodes[i], margin + (i - 1) * horizontal_spacing,
                           margin + vertical_spacing)])

\* math.ceil(math.sqrt(n))
CeilSqrt(n) == CHOOSE g \in 0..n : g * g >= n /\ \A h \in 0..(g - 1) : h * h < n

\* _apply_grid_layout
ApplyGridLayout(nodes) ==
    LET grid_size == CeilSqrt(Len(nodes))
    IN  LayoutOk([i \in 1..Len(nodes) |->
            Positioned(nodes[i],
                margin + ((i - 1) % grid_size) * horizontal_spacing,
                margin + ((i - 1) \div grid_size) * vertical_spacing)])

\* integer division rounding toward zero, as the sign-symmetric float division
TruncDiv(a, b) == IF a >= 0 THEN a \div b ELSE -((-a) \div b)

RECURSIVE ISqrtBetween(_, _, _)
\* the largest r in lo..hi with r * r <= n
ISqrtBetween(n, lo, hi) ==
    IF lo >= hi THEN lo
    ELSE LET mid == (lo + hi + 1) \div 2
         IN  IF mid * mid <= n THEN ISqrtBetween(n, mid, hi)
             ELSE ISqrtBetween(n, lo, mid - 1)

\* math.sqrt on fixed-point values
ISqrt(n) == ISqrtBetween(n, 0, 32768)

\* 1000 * cos(angle) and 1000 * sin(angle) for the angles 2 * pi * i / n in degrees
Cos1000 ==
    (0 :> 1000) @@ (60 :> 500) @@ (72 :> 309) @@ (90 :> 0) @@ (120 :> -500)
    @@ (144 :> -809) @@ (180 :> -1000) @@ (216 :> -809) @@ (240 :> -500)
    @@ (270 :> 0) @@ (288 :> 309) @@ (300 :> 500)

Sin1000 ==
    (0 :> 0) @@ (60 :> 866) @@ (72 :> 951) @@ (90 :> 1000) @@ (120 :> 866)
    @@ (144 :> 588) @@ (180 :> 0) @@ (216 :> -588) @@ (240 :> -866)
    @@ (270 :> -1000) @@ (288 :> -951) @@ (300 :> -866)

Vec(x, y) == [x |-> x, y |-> y]

RECURSIVE SumVec(_)
SumVec(vs) ==
    IF Len(vs) = 0 THEN Vec(0, 0)
    ELSE LET rest == SumVec(Tail(vs))
         IN  Vec(Head(vs).x + rest.x, Head(vs).y + rest.y)

\* the initial positions of _apply_force_directed_layout, in tenths of a unit:
\* a circle of radius 100 around (margin + 200, margin + 200)
SeedPositions(n) ==
    [i \in 1..n |->
        LET degrees == (360 * (i - 1)) \div n
        IN  Vec((margin + 200) * 10 + Cos1000[degrees],
                (margin + 200) * 10 + Sin1000[degrees])]

\* force = 1000 / distance^2 along (dx, dy) / distance, in tenths
Repulsion(p, q) ==
    LET dx == p.x - q.x
        dy == p.y - q.y
        distance == ISqrt(dx * dx + dy * dy)
    IN  IF distance > 0
        THEN Vec(TruncDiv(TruncDiv(1000000, distance) * dx, distance * distance),
                 TruncDiv(TruncDiv(1000000, distance) * dy, distance * distance))
        ELSE Vec(0, 0)

\* force = distance * 0.01 along (dx, dy) / distance, on node1 toward node2
Attraction(p1, p2) ==
    LET dx == p2.x - p1.x
        dy == p2.y - p1.y
        distance == ISqrt(dx * dx + dy * dy)
        force == TruncDiv(distance, 100)
    IN  IF distance > 0
        THEN Vec(TruncDiv(force * dx, distance), TruncDiv(force * dy, distance))
        ELSE Vec(0, 0)

\* next(n for n in positioned_nodes if n.id == id): index of the first such node
FirstWithId(ids, id) == CHOOSE i \in 1..Len(ids) : ids[i] = id /\ \A j \in 1..(i - 1) : ids[j] # id

\* forces[id] after the repulsive and the attractive loops of one iteration
ForceOn(id, pos, ids, edges) ==
    LET n == Len(ids)
        pairs == SumVec(Flatten([i \in 1..n |->
                    IF ids[i] = id
                    THEN [j \in 1..n |-> IF i # j THEN Repulsion(pos[i], pos[j])
                                         ELSE Vec(0, 0)]
                    ELSE <<>>]))
        pulls == SumVec([k \in 1..Len(edges) |->
                    LET a == Attraction(pos[FirstWithId(ids, edges[k].source_id)],
                                        pos[FirstWithId(ids, edges[k].target_id)])
                        plus == IF edges[k].source_id = id THEN 1 ELSE 0
                        minus == IF edges[k].target_id = id THEN 1 ELSE 0
                    IN  Vec((plus - minus) * a.x, (plus - minus) * a.y)])
    IN  Vec(pairs.x + pulls.x, pairs.y + pulls.y)

ForceIterations == 50

RECURSIVE ApplyForces(_, _, _, _)
\* node.position += forces[node.id] * damping, damping = 0.9, for the nodes from i on
ApplyForces(i, pos, ids, edges) ==
    IF i > Len(ids) THEN <<>>
    ELSE LET force == ForceOn(ids[i], pos, ids, edges)
         IN  <<Vec(pos[i].x + TruncDiv(force.x * 9, 10),
                   pos[i].y + TruncDiv(force.y * 9, 10))>>
             \o ApplyForces(i + 1, pos, ids, edges)

RECURSIVE ForceIterate(_, _, _, _)
\* the remaining iterations of the force loop (reading pos before the next
\* iteration keeps the evaluation of the positions iteration by iteration)
ForceIterate(pos, ids, edges, remaining) ==
    IF remaining = 0 \/ Len(pos) = 0 THEN pos
    ELSE ForceIterate(ApplyForces(1, pos, ids, edges), ids, edges, remaining - 1)

\* _apply_force_directed_layout; an edge whose source or target is no node makes
\* next(...) raise StopIteration in the first iteration
ApplyForceDirectedLayout(nodes, edges) ==
    IF Len(nodes) <= 1 THEN ApplyGridLayout(nodes)
    ELSE IF \E k \in 1..Len(edges) :
                \/ edges[k].source_id \notin NodeIds(nodes)
                \/ edges[k].target_id \notin NodeIds(nodes)
         THEN LayoutRaises("StopIteration")
         ELSE LET ids == [i \in 1..Len(nodes) |-> nodes[i].id]
                  final == ForceIterate(SeedPositions(Len(nodes)), ids, edges,
                                        ForceIterations)
              IN  LayoutOk([i \in 1..Len(nodes) |->
                      Positioned(nodes[i], TruncDiv(final[i].x + 5, 10),
                                 TruncDiv(final[i].y + 5, 10))])

\* _apply_erd_layout
ApplyErdLayout(nodes, edges) == ApplyForceDirectedLayout(nodes, edges)

\* _apply_class_layout
ApplyClassLayout(nodes, edges) == ApplyHierarchicalLayout(nodes, edges)

\* _apply_auto_layout
ApplyAutoLayout(nodes, edges, diagram_type) ==
    IF Len(nodes) = 0 THEN LayoutOk(nodes)
    ELSE CASE diagram_type = "flowchart" -> ApplyHierarchicalLayout(nodes, edges)
           [] diagram_type = "sequence"  -> ApplySequenceLayout(nodes, edges)
           [] diagram_type = "erd"       -> ApplyErdLayout(nodes, edges)
           [] diagram_type = "class"     -> ApplyClassLayout(nodes, edges)
           [] diagram_type = "process"   -> ApplyProcessLayout(nodes, edges)
           [] OTHER                      -> ApplyGridLayout(nodes)

-----------------------------------------------------------------------------
(* diagram_engine.py: validation                                           *)

DiagramData(diagram_type, mermaid_syntax, nodes, edges, layout_config, metadata) ==
    [diagram_type |-> diagram_type, mermaid_syntax |-> mermaid_syntax,
     nodes |-> nodes, edges |-> edges, layout_config |-> layout_config,
     metadata |-> metadata]

\* ValidationIssue; details holds the listed ids or strings
ValidationIssue(severity, code, details) ==
    [severity |-> severity, code |-> code, details |-> details]

valid_declarations ==
    {"flowchart", "graph", "sequenceDiagram", "classDiagram", "erDiagram", "gitgraph"}

\* _validate_mermaid_syntax
ValidateMermaidSyntax(syntax) ==
    IF \A i \in 1..Len(syntax) : Len(Strip(syntax[i])) = 0 THEN FALSE
    ELSE LET first_line == Strip(syntax[1])
         IN  Len(first_line) > 0 /\ first_line[1] \in valid_declarations

\* the test on one edge in _validate_edge_references and _find_orphaned_edges
IsOrphaned(nodes, edge) ==
    edge.source_id \notin NodeIds(nodes) \/ edge.target_id \notin NodeIds(nodes)

ValidateEdgeReferences_Unchecked(nodes, edges) == TRUE

\* _validate_edge_references
ValidateEdgeReferences(nodes, edges) ==
    \A k \in 1..Len(edges) : ~IsOrphaned(nodes, edges[k])

\* _find_orphaned_edges
FindOrphanedEdges(nodes, edges) ==
    LET Orphaned(e) == IsOrphaned(nodes, e)
    IN  SelectSeq(edges, Orphaned)

\* _find_overlapping_nodes: the pairs closer than 50 on both axes, as "id1-id2"
FindOverlappingNodes(nodes) ==
    LET HasPosition(n) == ~IsNone(n.position)
        positioned_nodes == SelectSeq(nodes, HasPosition)
        Overlap(a, b) ==
            /\ Abs(a.position[1].x - b.position[1].x) < 50
            /\ Abs(a.position[1].y - b.position[1].y) < 50
    IN  Flatten([i \in 1..Len(positioned_nodes) |->
            LET later == SubSeq(positioned_nodes, i + 1, Len(positioned_nodes))
                Close(b) == Overlap(positioned_nodes[i], b)
                hits == SelectSeq(later, Close)
            IN  [k \in 1..Len(hits) |-> positioned_nodes[i].id \o <<"-">> \o hits[k].id]])

\* _find_isolated_nodes
FindIsolatedNodes(nodes, edges) ==
    LET connected_nodes == {edges[k].source_id : k \in 1..Len(edges)}
                           \cup {edges[k].target_id : k \in 1..Len(edges)}
        Isolated(n) == n.id \notin connected_nodes
    IN  SelectSeq(nodes, Isolated)

\* _calculate_complexity_score as the exact fraction num / den:
\* 0.6 * min(n / 20, 1) + 0.4 * min((e / n) / 3, 1), and 0 for no nodes
ComplexityScore(node_count, edge_count) ==
    IF node_count = 0 THEN [num |-> 0, den |-> 1]
    ELSE [num |-> 6 * Min(node_count, 20) * 3 * node_count
                  + 4 * Min(edge_count, 3 * node_count) * 20,
          den |-> 10 * 20 * 3 * node_count]

\* complexity_score >= 0.8
IsHighComplexity_AtLeast(score) == 10 * score.num >= 8 * score.den

\* complexity_score > 0.8
IsHighComplexity(score) == 10 * score.num > 8 * score.den

CountType(nodes, types) == Cardinality({i \in 1..Len(nodes) : nodes[i].entity_type \in types})

\* _validate_diagram_type_appropriateness: is_appropriate
IsAppropriateType(diagram_data) ==
    LET total_entities == Len(diagram_data.nodes)
        current_type == diagram_data.diagram_type
    IN  CASE current_type = "erd" ->
               ~(total_entities > 0
                 /\ 2 * CountType(diagram_data.nodes, {"data", "object"}) < total_entities)
          [] current_type = "sequence" ->
               ~(total_entities > 0
                 /\ 10 * CountType(diagram_data.nodes, {"actor", "system"})
                        < 3 * total_entities)
          [] current_type = "process" ->
               ~(total_entities > 0
                 /\ 10 * CountType(diagram_data.nodes, {"process"}) < 3 * total_entities)
          [] OTHER -> TRUE

\* the issues list of validate_diagram_comprehensive (every entry has severity ERROR)
ValidationIssues(diagram_data) ==
    LET nodes == diagram_data.nodes
        edges == diagram_data.edges
        EmptyLabel(n) == Len(Strip(n.label)) = 0
        empty_label_nodes == SelectSeq(nodes, EmptyLabel)
        orphaned_edges == FindOrphanedEdges(nodes, edges)
    IN  (IF Len(nodes) = 0 THEN <<ValidationIssue("error", "NO_NODES", <<>>)>> ELSE <<>>)
        \o (IF ~ValidateMermaidSyntax(diagram_data.mermaid_syntax)
            THEN <<ValidationIssue("error", "INVALID_SYNTAX", <<>>)>> ELSE <<>>)
        \o (IF Len(empty_label_nodes) > 0
            THEN <<ValidationIssue("error", "EMPTY_LABELS",
                     [k \in 1..Len(empty_label_nodes) |-> empty_label_nodes[k].id])>>
            ELSE <<>>)
        \o (IF ~ValidateEdgeReferences(nodes, edges)
            THEN <<ValidationIssue("error", "ORPHANED_EDGES",
                     [k \in 1..Len(orphaned_edges) |->
                         orphaned_edges[k].source_id \o <<"->">>
                             \o orphaned_edges[k].target_id])>>
            ELSE <<>>)

\* the warnings list of validate_diagram_comprehensive
ValidationWarnings(diagram_data) ==
    LET nodes == diagram_data.nodes
        edges == diagram_data.edges
        Unpositioned(n) == IsNone(n.position)
        unpositioned_nodes == SelectSeq(nodes, Unpositioned)
        overlapping_pairs == FindOverlappingNodes(nodes)
        isolated_nodes == FindIsolatedNodes(nodes, edges)
    IN  (IF Len(unpositioned_nodes) > 0
         THEN <<ValidationIssue("warning", "UNPOSITIONED_NODES",
                  [k \in 1..Len(unpositioned_nodes) |-> unpositioned_nodes[k].id])>>
         ELSE <<>>)
        \o (IF Len(overlapping_pairs) > 0
            THEN <<ValidationIssue("warning", "OVERLAPPING_NODES", overlapping_pairs)>>
            ELSE <<>>)
        \o (IF IsHighComplexity(ComplexityScore(Len(nodes), Len(edges)))
            THEN <<ValidationIssue("warning", "HIGH_COMPLEXITY", <<>>)>> ELSE <<>>)
        \o (IF Len(isolated_nodes) > 0
            THEN <<ValidationIssue("info", "ISOLATED_NODES",
                     [k \in 1..Len(isolated_nodes) |-> isolated_nodes[k].id])>>
            ELSE <<>>)
        \o (IF ~IsAppropriateType(diagram_data)
            THEN <<ValidationIssue("warning", "INAPPROPRIATE_TYPE", <<<<"flowchart">>>>)>>
            ELSE <<>>)

\* is_valid = len(issues) == 0
IsValidResult(issues, warnings) == Len(issues) = 0

\* validate_diagram_comprehensive
ValidateDiagramComprehensive(diagram_data) ==
    LET issues == ValidationIssues(diagram_data)
        warnings == ValidationWarnings(diagram_data)
    IN  [is_valid |-> IsValidResult(issues, warnings),
         issues |-> issues,
         warnings |-> warnings,
         metadata |-> [complexity_score |->
                           ComplexityScore(Len(diagram_data.nodes), Len(diagram_data.edges)),
                       node_count |-> Len(diagram_data.nodes),
                       edge_count |-> Len(diagram_data.edges),
                       error_count |-> Len(issues),
                       warning_count |-> Len(warnings)]]

\* a legacy validation that does not look at the labels
ValidateDiagram_LabelsUnchecked(diagram_data) ==
    /\ Len(diagram_data.nodes) > 0
    /\ ValidateMermaidSyntax(diagram_data.mermaid_syntax)
    /\ ValidateEdgeReferences(diagram_data.nodes, diagram_data.edges)

\* validate_diagram (legacy): is_valid
ValidateDiagram(diagram_data) ==
    /\ Len(diagram_data.nodes) > 0
    /\ ValidateMermaidSyntax(diagram_data.mermaid_syntax)
    /\ \A i \in 1..Len(diagram_data.nodes) : Len(Strip(diagram_data.nodes[i].label)) > 0
    /\ ValidateEdgeReferences(diagram_data.nodes, diagram_data.edges)

-----------------------------------------------------------------------------
(* diagram_engine.py: generate_diagram                                     *)

TwoDigits(n) == IF n < 10 THEN <<"0">> \o IntToStr(n) ELSE IntToStr(n)

\* str(x) of a float x given in hundredths: 80 -> "0.8", 5 -> "0.05", 100 -> "1.0"
FloatStr(h) ==
    IntToStr(h \div 100) \o <<".">>
    \o (IF (h % 100) % 10 = 0 THEN IntToStr((h % 100) \div 10) ELSE TwoDigits(h % 100))

\* what a generate_diagram call leaves: the DiagramData it returns, or the
\* exception it raises (its class, stage and message, and for a
\* DiagramValidationError the ValidationResult it carries)
Returned(diagram_data) ==
    [kind |-> "returned", stage |-> "", message |-> "",
     diagram |-> Some(diagram_data), validation_result |-> None]

GenerationError(stage, message) ==
    [kind |-> "DiagramGenerationError", stage |-> stage, message |-> message,
     diagram |-> None, validation_result |-> None]

ValidationError(validation_result) ==
    [kind |-> "DiagramValidationError", stage |-> "",
     message |-> "Generated diagram failed validation",
     diagram |-> None, validation_result |-> Some(validation_result)]

MinConfidence == 10

\* _validate_input_content: the message of the DiagramGenerationError it raises
\* with stage "input_validation", or "" when it returns
ValidateInputContent_AnyConfidence(c) ==
    IF IsNone(c) THEN "Input content is None"
    ELSE IF Len(Strip(c[1].raw_text)) = 0 THEN "Input text is empty"
    ELSE IF Len(c[1].entities) = 0 /\ Len(c[1].relationships) = 0
         THEN "No entities or relationships found in input"
    ELSE ""

ValidateInputContent_AnyText(c) ==
    IF IsNone(c) THEN "Input content is None"
    ELSE IF Len(c[1].entities) = 0 /\ Len(c[1].relationships) = 0
         THEN "No entities or relationships found in input"
    ELSE IF c[1].confidence < MinConfidence THEN "Input parsing confidence too low"
    ELSE ""

ValidateInputContent(c) ==
    IF IsNone(c) THEN "Input content is None"
    ELSE IF Len(Strip(c[1].raw_text)) = 0 THEN "Input text is empty"
    ELSE IF Len(c[1].entities) = 0 /\ Len(c[1].relationships) = 0
         THEN "No entities or relationships found in input"
    ELSE IF c[1].confidence < MinConfidence THEN "Input parsing confidence too low"
    ELSE ""

ResetCounters_Kept(st) == st

\* _reset_counters
ResetCounters(st) == EngineState(0, EmptyMap)

\* the metadata dict of generate_diagram
DiagramMetadata(c) ==
    [entity_count |-> IntToStr(Len(c.entities)),
     relationship_count |-> IntToStr(Len(c.relationships)),
     confidence |-> FloatStr(c.confidence),
     original_text_length |-> IntToStr(Len(c.raw_text))]

\* the DiagramData generate_diagram assembles: the syntax is rendered from the
\* nodes as generated, the nodes it carries are the ones the layout returned
AssembleDiagram(c, nodes, positioned_nodes, edges) ==
    DiagramData(c.suggested_diagram_type,
                GenerateMermaidSyntax(c.suggested_diagram_type, nodes, edges),
                positioned_nodes, edges,
                GenerateLayoutConfig(c.suggested_diagram_type),
                DiagramMetadata(c))

IsErrorIssue(issue) == issue.severity = "error"

RaisesValidationError_OnAnyFinding(validation_result) ==
    Len(validation_result.issues) + Len(validation_result.warnings) > 0

\* "if not validation_result.is_valid: ... if critical_errors: raise"
RaisesValidationError(validation_result) ==
    ~validation_result.is_valid /\ Len(SelectSeq(validation_result.issues, IsErrorIssue)) > 0

\* generate_diagram from the layout on, given the nodes and edges generated:
\* layout, DiagramData, comprehensive validation, and the return or raise
FinishDiagram(c, nodes, edges) ==
    LET layout == ApplyAutoLayout(nodes, edges, c.suggested_diagram_type)
        diagram_data == AssembleDiagram(c, nodes, layout.nodes, edges)
        validation_result == ValidateDiagramComprehensive(diagram_data)
    IN  IF ~layout.ok
        THEN GenerationError("layout_generation", "Failed to apply auto-layout")
        ELSE IF RaisesValidationError(validation_result)
             THEN ValidationError(validation_result)
             ELSE Returned(diagram_data)

\* generate_diagram on the engine in state st: the engine state it leaves
\* and its outcome
GenerateDiagram(st, c) ==
    IF ValidateInputContent(c) # ""
    THEN [st |-> st, outcome |-> GenerationError("input_validation", ValidateInputContent(c))]
    ELSE LET n == GenerateNodes(ResetCounters(st), c[1].entities)
             e == GenerateEdges(n.st, c[1].relationships)
         IN  [st |-> e.st, outcome |-> FinishDiagram(c[1], n.nodes, e.edges)]

\* a generate_diagram that took the entities out of the list it was given
ContentLeftByGenerateDiagram_Consumed(c) ==
    IF IsNone(c) THEN c ELSE Some([c[1] EXCEPT !.entities = <<>>])

\* the caller's ParsedContent object as a generate_diagram call leaves it:
\* generate_diagram, _generate_nodes, _generate_edges and the layouts read
\* its fields and assign to none of them, and every list they append to and
\* every Node they position is one they created
ContentLeftByGenerateDiagram(c) == c

\* DiagramEngine(): the engine as constructed
NewEngine == EngineState(0, EmptyMap)

-----------------------------------------------------------------------------
(* Inputs of generate_diagram                                              *)

MaxEntities == 2

MaxRelationships == 1

\* entities a parse can hand over: two named ones, one whose name is blank
EntityA == Entity(<<"A">>, "data", <<>>)

EntityB == Entity(<<"B">>, "process", <<>>)

EntityBlank == Entity(<<" ">>, "actor", <<>>)

EntityLS == Entity(<<"L", " ", "S">>, "system", <<>>)

\* relationships between them; the name C belongs to no entity
RelationshipAB == Relationship(<<"A">>, <<"B">>, "uses", <<"u">>)

RelationshipAC == Relationship(<<"A">>, <<"C">>, "creates", <<>>)

RelationshipPool == {RelationshipAB, RelationshipAC}

\* ParsedContent values with a non-blank text and a confidence of 0.8
ContentsOver(entity_pool) ==
    {Some(ParsedContent(e, r, t, 80, <<"x">>)) :
        e \in SeqsUpTo(entity_pool, MaxEntities),
        r \in SeqsUpTo(RelationshipPool, MaxRelationships),
        t \in DiagramTypes}

\* the arguments of the sequential calls
SeqContents == ContentsOver({EntityA, EntityB})

\* ParsedContent values whose text or confidence varies
EdgeContents ==
    {Some(ParsedContent(e, r, "flowchart", c, x)) :
        e \in SeqsUpTo({EntityA}, MaxEntities),
        r \in SeqsUpTo({RelationshipAB}, MaxRelationships),
        c \in {0, MinConfidence - 1, MinConfidence, 30, 80},
        x \in {<<>>, <<" ">>, <<"\t", " ">>, <<"x">>}}

\* a name of n characters c
NameOfLen(n, c) == [i \in 1..n |-> c]

\* entities whose names are as long as the label limit, longer, longer only
\* before the whitespace is stripped, and longer with a space at the cut
LongEntities ==
    {Entity(NameOfLen(MaxLabelLen, "x"), "data", <<>>),
     Entity(NameOfLen(MaxLabelLen + 1, "x"), "data", <<>>),
     Entity(<<" ", " ">> \o NameOfLen(MaxLabelLen - 1, "x"), "actor", <<>>),
     Entity(NameOfLen(KeptLabelLen - 1, "x") \o <<" ">> \o NameOfLen(5, "x"), "process", <<>>)}

\* ParsedContent values with one entity of a long name
LabelContents ==
    {Some(ParsedContent(<<e>>, <<>>, t, 80, <<"x">>)) :
        e \in LongEntities, t \in DiagramTypes}

\* an entity whose name differs from A's only by a character the id drops
EntityAS == Entity(<<"A", " ">>, "actor", <<>>)

RelationshipAAS == Relationship(<<"A">>, <<"A", " ">>, "uses", <<>>)

\* ParsedContent values whose names clean to the same text
IdContents ==
    {Some(ParsedContent(e, r, "flowchart", 80, <<"x">>)) :
        e \in SeqsUpTo({EntityA, EntityAS}, MaxEntities),
        r \in SeqsUpTo({RelationshipAAS, RelationshipAC}, MaxRelationships)}

\* the arguments of generate_diagram: None, or a ParsedContent
Contents ==
    {None} \cup ContentsOver({EntityA, EntityB, EntityBlank, EntityLS})
           \cup EdgeContents \cup LabelContents \cup IdContents

-----------------------------------------------------------------------------
(* One engine, one caller: generate_diagram called again and again         *)

Idle == [kind |-> "idle", stage |-> "", message |-> "",
         diagram |-> None, validation_result |-> None]

Pending == [kind |-> "pending", stage |-> "", message |-> "",
            diagram |-> None, validation_result |-> None]

NoThreads == <<>>

\* no generate_specification call has been made
DocIdle ==
    /\ spec_request = None
    /\ specification = Idle

\* no parse_text call has been made
ParseIdle ==
    /\ text = None
    /\ parsed = Idle

\* no helper function has been called on its own
HelperIdle ==
    /\ helper_call = None
    /\ helper_frame = None
    /\ helper_result = None

Init ==
    /\ node_counter = NewEngine.node_counter
    /\ node_id_map = NewEngine.node_id_map
    /\ content = None
    /\ outcome = Idle
    /\ entry_counter = 0
    /\ threads = NoThreads
    /\ DocIdle
    /\ ParseIdle
    /\ HelperIdle

\* the caller passes c to engine.generate_diagram
CallGenerateDiagram(c) ==
    /\ outcome.kind # "pending"
    /\ content' = c
    /\ outcome' = Pending
    /\ UNCHANGED <<docVars, parseVars, helperVars, node_counter, node_id_map, entry_counter, threads>>

\* generate_diagram runs from its first line to its return or raise
RunGenerateDiagram ==
    /\ outcome.kind = "pending"
    /\ LET r == GenerateDiagram(EngineState(node_counter, node_id_map), content)
       IN  /\ node_counter' = r.st.node_counter
           /\ node_id_map' = r.st.node_id_map
           /\ outcome' = r.outcome
    /\ entry_counter' = node_counter
    /\ content' = ContentLeftByGenerateDiagram(content)
    /\ UNCHANGED <<docVars, parseVars, helperVars, threads>>

Next ==
    \/ \E c \in SeqContents : CallGenerateDiagram(c)
    \/ RunGenerateDiagram

Spec == Init /\ [][Next]_vars

\* C1: generate_diagram is deterministic across sequential calls on one engine:
\* whatever calls came before, a call's result is the result the same input
\* gives on a freshly constructed engine (the id counters restart every call).
C1_Deterministic ==
    outcome.kind \notin {"idle", "pending"}
        => outcome = GenerateDiagram(NewEngine, content).outcome

\* a call returned its nodes numbered from 1 on an engine whose counter an
\* earlier call had left at 2
C1_Witness ==
    /\ outcome.kind = "returned"
    /\ entry_counter = 2
    /\ Len(outcome.diagram[1].nodes) = 2
    /\ outcome.diagram[1].nodes[1].id = <<"B", "_", "1">>
    /\ outcome.diagram[1].nodes[2].id = <<"A", "_", "2">>

-----------------------------------------------------------------------------
(* A freshly constructed engine and one generate_diagram call on it        *)

\* engine = DiagramEngine(); engine.generate_diagram(c)
CallOnNewEngine(c) ==
    /\ outcome.kind = "idle"
    /\ CallGenerateDiagram(c)

NextGen ==
    \/ \E c \in Contents : CallOnNewEngine(c)
    \/ RunGenerateDiagram

SpecGen == Init /\ [][NextGen]_vars

Finished == outcome.kind \notin {"idle", "pending"}

IdsOf(nodes) == {nodes[i].id : i \in 1..Len(nodes)}

\* C3: every DiagramData that generate_diagram returns has, for every edge,
\* both source_id and target_id among the ids of its nodes.
C3_EdgesReferToNodes ==
    outcome.kind = "returned" =>
        \A i \in 1..Len(outcome.diagram[1].edges) :
            /\ outcome.diagram[1].edges[i].source_id \in IdsOf(outcome.diagram[1].nodes)
            /\ outcome.diagram[1].edges[i].target_id \in IdsOf(outcome.diagram[1].nodes)

\* a diagram with an edge was returned
C3_Witness ==
    /\ outcome.kind = "returned"
    /\ Len(outcome.diagram[1].edges) > 0
    /\ outcome.diagram[1].edges[1].source_id # outcome.diagram[1].edges[1].target_id

EntityNames(c) == {c.entities[i].name : i \in 1..Len(c.entities)}

\* some relationship of c names a source or target that is no entity of c
HasUnknownEndpoint(c) ==
    \E i \in 1..Len(c.relationships) :
        \/ c.relationships[i].source \notin EntityNames(c)
        \/ c.relationships[i].target \notin EntityNames(c)

HasIssue(result, code) ==
    \E i \in 1..Len(result.issues) :
        result.issues[i].code = code /\ result.issues[i].severity = "error"

\* C4 (as stated): for every diagram type, when a relationship's source or
\* target is not the name of any input entity, generate_diagram fails with a
\* ValidationError whose ValidationResult contains an ORPHANED_EDGES error.
C4_OrphanIsValidationError ==
    (/\ Finished
     /\ ValidateInputContent(content) = ""
     /\ HasUnknownEndpoint(content[1]))
        => /\ outcome.kind = "DiagramValidationError"
           /\ HasIssue(outcome.validation_result[1], "ORPHANED_EDGES")

\* the text of c is empty or blank
IsBlankText(c) == \A i \in 1..Len(c.raw_text) : c.raw_text[i] \in Whitespace

IsEmptyContent(c) ==
    /\ ~IsNone(c)
    /\ Len(c[1].entities) = 0
    /\ Len(c[1].relationships) = 0
    /\ Len(c[1].raw_text) = 0

C9_OnlyErrorsBlock ==
    /\ outcome.kind = "DiagramValidationError"
           => \E i \in 1..Len(outcome.validation_result[1].issues) :
                  outcome.validation_result[1].issues[i].severity = "error"
    /\ (Finished /\ ValidateInputContent(content) = "")
           => LET n == GenerateNodes(NewEngine, content[1].entities)
                  e == GenerateEdges(n.st, content[1].relationships)
                  layout == ApplyAutoLayout(n.nodes, e.edges,
                                            content[1].suggested_diagram_type)
                  d == AssembleDiagram(content[1], n.nodes, layout.nodes, e.edges)
                  result == ValidateDiagramComprehensive(d)
              IN  (/\ layout.ok
                   /\ \A i \in 1..Len(result.issues) :
                          result.issues[i].severity # "error")
                      => outcome = Returned(d)

\* a diagram whose validation yields a warning was returned
C9_Witness ==
    /\ outcome.kind = "returned"
    /\ \E i \in 1..Len(ValidateDiagramComprehensive(outcome.diagram[1]).warnings) :
           ValidateDiagramComprehensive(outcome.diagram[1]).warnings[i].severity = "warning"

-----------------------------------------------------------------------------
(* One engine shared by two callers whose generate_diagram calls            *)
(* interleave.  node_counter and node_id_map are fields of the engine;      *)
(* nodes, edges and everything after them are locals of a call.  A step is  *)
(* one statement of generate_diagram or one _get_or_create_node_id call.    *)

Threads == {"t1", "t2"}

\* the arguments of the interleaved calls
ConcContents == {c \in SeqContents : c[1].suggested_diagram_type = "flowchart"}

Thread(pc, c, nodes, edges, source_id, result) ==
    [pc |-> pc, content |-> c, nodes |-> nodes, edges |-> edges,
     source_id |-> source_id, outcome |-> result]

InitConc ==
    /\ node_counter = NewEngine.node_counter
    /\ node_id_map = NewEngine.node_id_map
    /\ content = None
    /\ outcome = Idle
    /\ entry_counter = 0
    /\ threads = [t \in Threads |-> Thread("idle", None, <<>>, <<>>, <<>>, Idle)]
    /\ DocIdle
    /\ ParseIdle
    /\ HelperIdle

\* thread t calls engine.generate_diagram(c)
ThreadCall(t, c) ==
    /\ threads[t].pc = "idle"
    /\ threads' = [threads EXCEPT ![t] = Thread("validate", c, <<>>, <<>>, <<>>, Pending)]
    /\ UNCHANGED <<docVars, parseVars, helperVars, node_counter, node_id_map, content, outcome, entry_counter>>

\* self._validate_input_content(content)
ThreadValidate(t) ==
    /\ threads[t].pc = "validate"
    /\ threads' = [threads EXCEPT ![t] =
           IF ValidateInputContent(threads[t].content) # ""
           THEN [threads[t] EXCEPT
                    !.pc = "done",
                    !.outcome = GenerationError("input_validation",
                                    ValidateInputContent(threads[t].content))]
           ELSE [threads[t] EXCEPT !.pc = "reset"]]
    /\ UNCHANGED <<docVars, parseVars, helperVars, node_counter, node_id_map, content, outcome, entry_counter>>

\* the position after the nodes, or after an edge, have been generated
AfterNodes(th) ==
    IF Len(th.nodes) < Len(th.content[1].entities) THEN "nodes"
    ELSE IF Len(th.edges) < Len(th.content[1].relationships) THEN "edge_source"
    ELSE "finish"

\* self._reset_counters()
ThreadReset(t) ==
    /\ threads[t].pc = "reset"
    /\ node_counter' = ResetCounters(EngineState(node_counter, node_id_map)).node_counter
    /\ node_id_map' = ResetCounters(EngineState(node_counter, node_id_map)).node_id_map
    /\ threads' = [threads EXCEPT ![t] = [threads[t] EXCEPT !.pc = AfterNodes(threads[t])]]
    /\ UNCHANGED <<docVars, parseVars, helperVars, content, outcome, entry_counter>>

\* one pass of the loop of _generate_nodes
ThreadNode(t) ==
    /\ threads[t].pc = "nodes"
    /\ LET th == threads[t]
           r == NodeOfEntity(EngineState(node_counter, node_id_map),
                             th.content[1].entities[Len(th.nodes) + 1])
           grown == [th EXCEPT !.nodes = Append(th.nodes, r.node)]
       IN  /\ node_counter' = r.st.node_counter
           /\ node_id_map' = r.st.node_id_map
           /\ threads' = [threads EXCEPT ![t] = [grown EXCEPT !.pc = AfterNodes(grown)]]
    /\ UNCHANGED <<docVars, parseVars, helperVars, content, outcome, entry_counter>>

\* source_id = self._get_or_create_node_id(relationship.source)
ThreadEdgeSource(t) ==
    /\ threads[t].pc = "edge_source"
    /\ LET th == threads[t]
           r == GetOrCreateNodeId(EngineState(node_counter, node_id_map),
                                  th.content[1].relationships[Len(th.edges) + 1].source)
       IN  /\ node_counter' = r.st.node_counter
           /\ node_id_map' = r.st.node_id_map
           /\ threads' = [threads EXCEPT ![t] =
                  [th EXCEPT !.pc = "edge_target", !.source_id = r.id]]
    /\ UNCHANGED <<docVars, parseVars, helperVars, content, outcome, entry_counter>>

\* target_id = self._get_or_create_node_id(relationship.target), and the rest
\* of the pass of the loop of _generate_edges
ThreadEdgeTarget(t) ==
    /\ threads[t].pc = "edge_target"
    /\ LET th == threads[t]
           relationship == th.content[1].relationships[Len(th.edges) + 1]
           r == GetOrCreateNodeId(EngineState(node_counter, node_id_map),
                                  relationship.target)
           label == IF Len(relationship.label) > 0 THEN CleanLabel(relationship.label)
                    ELSE <<>>
           edge == Edge(th.source_id, r.id, label, ArrowOf(relationship.type),
                        relationship.type)
           grown == [th EXCEPT !.edges = Append(th.edges, edge), !.source_id = <<>>]
       IN  /\ node_counter' = r.st.node_counter
           /\ node_id_map' = r.st.node_id_map
           /\ threads' = [threads EXCEPT ![t] = [grown EXCEPT !.pc = AfterNodes(grown)]]
    /\ UNCHANGED <<docVars, parseVars, helperVars, content, outcome, entry_counter>>

\* the rest of generate_diagram, which reads no field of the engine that a
\* call changes
ThreadFinish(t) ==
    /\ threads[t].pc = "finish"
    /\ threads' = [threads EXCEPT ![t] =
           [threads[t] EXCEPT
               !.pc = "done",
               !.outcome = FinishDiagram(threads[t].content[1], threads[t].nodes,
                                         threads[t].edges)]]
    /\ UNCHANGED <<docVars, parseVars, helperVars, node_counter, node_id_map, content, outcome, entry_counter>>

NextConc ==
    \E t \in Threads :
        \/ \E c \in ConcContents : ThreadCall(t, c)
        \/ ThreadValidate(t)
        \/ ThreadReset(t)
        \/ ThreadNode(t)
        \/ ThreadEdgeSource(t)
        \/ ThreadEdgeTarget(t)
        \/ ThreadFinish(t)

SpecConc == InitConc /\ [][NextConc]_vars

\* C2 (as stated): when two generate_diagram calls interleave on one shared
\* engine, each call returns exactly what it returns when run alone.
C2_NoLeakBetweenCalls ==
    \A t \in DOMAIN threads :
        threads[t].pc = "done"
            => threads[t].outcome = GenerateDiagram(NewEngine, threads[t].content).outcome

-----------------------------------------------------------------------------
(* specification_generator.py.  The structure of a GeneratedSpecification  *)
(* is modelled (title, which sections in which order, the acceptance       *)
(* criteria, the test scaffold, the metadata counts); the prose of the     *)
(* sections and the markdown rendered from it are not.  A call that may    *)
(* raise yields [raised, value]: raised is "" and value the result, or     *)
(* raised is the exception's type name.                                    *)

ProgrammingLanguages ==
    {"python", "javascript", "typescript", "java", "csharp", "go", "rust"}

Ok(value) == [raised |-> "", stage |-> "", value |-> value]

Raised(type_name, stage) == [raised |-> type_name, stage |-> stage, value |-> <<>>]

\* what a generate_specification call leaves: the GeneratedSpecification it
\* returns, or the SpecificationGenerationError it raises
ReturnedSpecification(generated) ==
    [kind |-> "returned", stage |-> "", message |-> "", error_type |-> "",
     generated |-> Some(generated)]

SpecificationGenerationError(stage, message, error_type) ==
    [kind |-> "SpecificationGenerationError", stage |-> stage, message |-> message,
     error_type |-> error_type, generated |-> None]

\* _validate_diagram_data: the message of the SpecificationGenerationError it
\* raises with stage "input_validation", or "" when it returns
ValidateDiagramData(d) ==
    IF IsNone(d) THEN "Diagram data is None"
    ELSE IF Len(d[1].nodes) = 0 THEN "Diagram has no nodes"
    ELSE IF Len(d[1].mermaid_syntax) = 0 THEN "Diagram has no Mermaid syntax"
    ELSE ""

\* _generate_title
GenerateTitle(diagram_type, project_name) ==
    LET type_name == CASE diagram_type = "flowchart" -> "Process Flow"
                       [] diagram_type = "erd"       -> "Data Model"
                       [] diagram_type = "sequence"  -> "Interaction Flow"
                       [] diagram_type = "class"     -> "System Architecture"
                       [] diagram_type = "process"   -> "Business Process"
                       [] OTHER                      -> "System"
    IN  project_name \o <<" - ", type_name, " Specification">>

\* self.diagram_type_templates.get(diagram_type, <the flowchart template>)
diagram_type_templates(diagram_type) ==
    CASE diagram_type \in {"erd", "class"} ->
           <<"overview", "requirements", "architecture", "components",
             "acceptance_criteria", "implementation_notes">>
      [] diagram_type = "sequence" ->
           <<"overview", "requirements", "data_flow",
             "acceptance_criteria", "implementation_notes">>
      [] OTHER ->
           <<"overview", "requirements", "data_flow", "business_rules",
             "acceptance_criteria", "implementation_notes">>

SpecSection(section_type, order) == [section_type |-> section_type, order |-> order]

\* the loop over section_types: section i + 1 of the template, in order
GenerateSections(diagram_type) ==
    [i \in 1..Len(diagram_type_templates(diagram_type)) |->
        SpecSection(diagram_type_templates(diagram_type)[i], i)]

AcceptanceCriterion(id, description, priority, category, related_entities) ==
    [id |-> id, description |-> description, priority |-> priority,
     category |-> category, related_entities |-> related_entities]

\* _generate_node_criteria without the interaction criterion
GenerateNodeCriteria_InitOnly(node, edges, start_num) ==
    <<AcceptanceCriterion(IntToStr(start_num),
          node.label \o <<" must be properly initialized and functional">>,
          "high", "functional", <<node.label>>)>>

\* _generate_node_criteria
GenerateNodeCriteria(node, edges, start_num) ==
    LET Connected(edge) == edge.source_id = node.id \/ edge.target_id = node.id
        connected_edges == SelectSeq(edges, Connected)
    IN  <<AcceptanceCriterion(IntToStr(start_num),
              node.label \o <<" must be properly initialized and functional">>,
              "high", "functional", <<node.label>>)>>
        \o (IF Len(connected_edges) > 0
            THEN <<AcceptanceCriterion(IntToStr(start_num + 1),
                       node.label
                           \o <<" must successfully interact with connected components">>,
                       "medium", "functional", <<node.label>>)>>
            ELSE <<>>)

\* _find_node_by_id: the first node with that id, or None
FindNodeById(nodes, node_id) ==
    LET HasId(n) == n.id = node_id
        found == SelectSeq(nodes, HasId)
    IN  IF Len(found) > 0 THEN Some(found[1]) ELSE None

\* _generate_edge_criteria: the criterion, or None
GenerateEdgeCriteria(edge, nodes, criterion_num) ==
    LET source_node == FindNodeById(nodes, edge.source_id)
        target_node == FindNodeById(nodes, edge.target_id)
    IN  IF IsNone(source_node) \/ IsNone(target_node) THEN None
        ELSE Some(AcceptanceCriterion(IntToStr(criterion_num),
                      source_node[1].label \o <<" must successfully ">>
                          \o <<edge.relationship_type, " ">> \o target_node[1].label,
                      "medium", "functional",
                      <<source_node[1].label, target_node[1].label>>))

\* criteria and criterion_counter of _generate_acceptance_criteria
CriteriaState(criteria, criterion_counter) ==
    [criteria |-> criteria, criterion_counter |-> criterion_counter]

RECURSIVE NodeCriteriaFrom(_, _, _)
\* the loop over diagram_data.nodes of _generate_acceptance_criteria
NodeCriteriaFrom(nodes, edges, cs) ==
    IF Len(nodes) = 0 THEN cs
    ELSE LET node_criteria == GenerateNodeCriteria(Head(nodes), edges, cs.criterion_counter)
         IN  NodeCriteriaFrom(Tail(nodes), edges,
                 CriteriaState(cs.criteria \o node_criteria,
                               cs.criterion_counter + Len(node_criteria)))

\* a loop body that counts every edge, also one without a criterion
AfterEdgeCriteria_EveryEdgeCounted(cs, edge_criteria) ==
    CriteriaState(cs.criteria \o edge_criteria, cs.criterion_counter + 1)

\* the body of the loop over diagram_data.edges, after _generate_edge_criteria
AfterEdgeCriteria(cs, edge_criteria) ==
    IF ~IsNone(edge_criteria)
    THEN CriteriaState(Append(cs.criteria, edge_criteria[1]), cs.criterion_counter + 1)
    ELSE cs

RECURSIVE EdgeCriteriaFrom(_, _, _)
\* the loop over diagram_data.edges of _generate_acceptance_criteria
EdgeCriteriaFrom(edges, nodes, cs) ==
    IF Len(edges) = 0 THEN cs
    ELSE EdgeCriteriaFrom(Tail(edges), nodes,
             AfterEdgeCriteria(cs,
                 GenerateEdgeCriteria(Head(edges), nodes, cs.criterion_counter)))

\* _generate_acceptance_criteria
GenerateAcceptanceCriteria(d) ==
    EdgeCriteriaFrom(d.edges, d.nodes,
        NodeCriteriaFrom(d.nodes, d.edges, CriteriaState(<<>>, 1))).criteria

\* _get_unit_test_filename
GetUnitTestFilename(language) ==
    CASE language = "javascript" -> "components.test.js"
      [] language = "java"       -> "ComponentTests.java"
      [] OTHER                   -> "test_components.py"

\* _get_integration_test_filename
GetIntegrationTestFilename(language) ==
    CASE language = "javascript" -> "integrations.test.js"
      [] language = "java"       -> "IntegrationTests.java"
      [] OTHER                   -> "test_integrations.py"

\* _get_e2e_test_filename
GetE2eTestFilename(language) ==
    CASE language = "javascript" -> "e2e.test.js"
      [] language = "java"       -> "EndToEndTests.java"
      [] OTHER                   -> "test_e2e.py"

TestCase(name, test_type, subject) ==
    [name |-> name, test_type |-> test_type, subject |-> subject]

TestFile(filename, language, imports, setup_code, test_cases, helper_methods, full_content) ==
    [filename |-> filename, language |-> language, imports |-> imports,
     setup_code |-> setup_code, test_cases |-> test_cases,
     helper_methods |-> helper_methods, full_content |-> full_content]

TestScaffold(language, test_files, metadata) ==
    [language |-> language, test_files |-> test_files, metadata |-> metadata]

\* templates.get(language, templates[ProgrammingLanguage.PYTHON]): the language
\* whose template a lookup by language yields
TemplateLanguage(language) ==
    IF language \in {"python", "javascript", "java"} THEN language ELSE "python"

\* a piece of template text: which template, and of which language
Template(name, language) == [template |-> name, language |-> language]

\* _get_unit_test_imports, _get_integration_test_imports, _get_e2e_test_imports
GetTestImports(test_type, language) ==
    <<Template(<<test_type, "imports">>, TemplateLanguage(language))>>

\* _get_unit_test_setup, _get_integration_test_setup, _get_e2e_test_setup:
\* the class or describe header with its set-up and tear-down methods
GetTestSetup(test_type, language) ==
    Template(<<test_type, "setup">>, TemplateLanguage(language))

\* _get_unit_test_helpers, _get_integration_test_helpers, _get_e2e_test_helpers
GetTestHelpers(test_type, language) ==
    <<Template(<<test_type, "helper_1">>, TemplateLanguage(language)),
      Template(<<test_type, "helper_2">>, TemplateLanguage(language))>>

\* a line of a rendered test case
CaseLine(kind, test_case) == [line |-> kind, test_case |-> test_case]

\* _format_test_case: the lines of one test case
FormatTestCase(test_case, language) ==
    CASE language = "python" ->
            <<CaseLine("def name(self):", test_case), CaseLine("docstring", test_case),
              CaseLine("description", test_case), CaseLine("docstring", test_case),
              CaseLine("setup_code", test_case), CaseLine("test_code", test_case),
              CaseLine("teardown_code", test_case)>>
      [] language = "javascript" ->
            <<CaseLine("it(description, () => {", test_case),
              CaseLine("setup_code", test_case), CaseLine("test_code", test_case),
              CaseLine("teardown_code", test_case), CaseLine("});", test_case)>>
      [] language = "java" ->
            <<CaseLine("@Test", test_case), CaseLine("void name() {", test_case),
              CaseLine("// description", test_case),
              CaseLine("setup_code", test_case), CaseLine("test_code", test_case),
              CaseLine("teardown_code", test_case), CaseLine("}", test_case)>>
      [] OTHER -> <<CaseLine("// name: description", test_case)>>

\* _generate_test_file_content: the parts that "\n".join puts on lines of
\* their own.  The second header line carries the time of the call, which the
\* model leaves out.
GenerateTestFileContent(test_type, imports, setup_code, test_cases, helper_methods, language) ==
    <<<<"# Generated", test_type, "tests">>, "# Generated on", "">>
    \o imports \o <<"">>
    \o <<setup_code, "">>
    \o Flatten([i \in 1..Len(test_cases) |->
                   FormatTestCase(test_cases[i], language) \o <<"">>])
    \o (IF Len(helper_methods) > 0 THEN helper_methods \o <<"">> ELSE <<>>)
    \o (IF language \in {"python", "java"} THEN <<"">>
        ELSE IF language = "javascript" THEN <<"});">>
        ELSE <<>>)

\* the TestFile the three _generate_*_test_file methods build from test cases
BuildTestFile(test_type, filename, test_cases, language) ==
    TestFile(filename, language,
             GetTestImports(test_type, language),
             GetTestSetup(test_type, language),
             test_cases,
             GetTestHelpers(test_type, language),
             GenerateTestFileContent(test_type, GetTestImports(test_type, language),
                 GetTestSetup(test_type, language), test_cases,
                 GetTestHelpers(test_type, language), language))

\* _generate_basic_functionality_test.  Before it looks the language up, it
\* builds the templates of all three languages, and the JavaScript and Java
\* templates format node.label.toLowerCase(): a str has no such attribute, so
\* the call raises AttributeError for every node and every language.
GenerateBasicFunctionalityTest(node, language) == Raised("AttributeError", "")

\* _generate_node_unit_tests: the basic functionality test is the first test
\* it builds, and nothing after it runs
GenerateNodeUnitTests(node, acceptance_criteria, language) ==
    GenerateBasicFunctionalityTest(node, language)

\* _generate_unit_test_file: the tests of the first node raise; without a
\* node the file has no test case
GenerateUnitTestFile(d, acceptance_criteria, language) ==
    IF Len(d.nodes) > 0
    THEN GenerateNodeUnitTests(d.nodes[1], acceptance_criteria, language)
    ELSE Ok(BuildTestFile("unit_tests", GetUnitTestFilename(language), <<>>, language))

\* _generate_edge_integration_tests: two tests for an edge whose two nodes are
\* found, none otherwise
GenerateEdgeIntegrationTests(edge, nodes) ==
    IF IsNone(FindNodeById(nodes, edge.source_id))
       \/ IsNone(FindNodeById(nodes, edge.target_id))
    THEN <<>>
    ELSE <<TestCase("successful_interaction", "integration", edge),
           TestCase("interaction_failure", "integration", edge)>>

\* _generate_integration_test_file
GenerateIntegrationTestFile(d, language) ==
    BuildTestFile("integration_tests", GetIntegrationTestFilename(language),
                  Flatten([i \in 1..Len(d.edges) |->
                              GenerateEdgeIntegrationTests(d.edges[i], d.nodes)]),
                  language)

MaxWorkflows == 3

TraceFrame(workflow, visited) == [workflow |-> workflow, visited |-> visited]

\* outgoing = [edge for edge in edges if edge.source_id == start_node.id]
OutgoingEdges(edges, start_node) ==
    LET IsOutgoing(edge) == edge.source_id = start_node.id
    IN  SelectSeq(edges, IsOutgoing)

\* self._find_node_by_id([n for n in workflow if n.id != start_node.id],
\* edge.target_id)
TargetInWorkflow(workflow, start_node, edge) ==
    LET NotStart(n) == n.id # start_node.id
    IN  FindNodeById(SelectSeq(workflow, NotStart), edge.target_id)

\* the outgoing edges whose target is found and not yet visited
FollowedEdges(workflow, start_node, edges, visited) ==
    LET Followed(edge) ==
            /\ TargetInWorkflow(workflow, start_node, edge) # None
            /\ TargetInWorkflow(workflow, start_node, edge)[1].id \notin visited
    IN  SelectSeq(OutgoingEdges(edges, start_node), Followed)

\* _trace_workflow_from_node: the workflow starts as [start_node] and
\* start_node.id joins the shared visited set.  For each outgoing edge the
\* target is looked up among the nodes of the workflow whose id differs from
\* start_node.id; the first one found and not yet visited is traced from,
\* its trace is appended and the loop stops.  The result is the workflow
\* together with the visited set as the call leaves it.
RECURSIVE TraceWorkflowFromNode(_, _, _)
TraceWorkflowFromNode(start_node, edges, visited) ==
    LET workflow == <<start_node>>
        entered == visited \cup {start_node.id}
        followed == FollowedEdges(workflow, start_node, edges, entered)
    IN  IF Len(followed) = 0
        THEN TraceFrame(workflow, entered)
        ELSE LET rest == TraceWorkflowFromNode(
                             TargetInWorkflow(workflow, start_node, followed[1])[1],
                             edges, entered)
             IN  TraceFrame(workflow \o rest.workflow, rest.visited)

\* the loop of _identify_workflows from node i on: a node not yet visited is
\* traced from and its workflow kept when it has more than one node
RECURSIVE WorkflowsFrom(_, _, _, _)
WorkflowsFrom(d, i, visited, workflows) ==
    IF i > Len(d.nodes) THEN workflows
    ELSE IF d.nodes[i].id \in visited
         THEN WorkflowsFrom(d, i + 1, visited, workflows)
         ELSE LET traced == TraceWorkflowFromNode(d.nodes[i], d.edges, visited)
              IN  WorkflowsFrom(d, i + 1, traced.visited,
                                IF Len(traced.workflow) > 1
                                THEN Append(workflows, traced.workflow)
                                ELSE workflows)

\* _identify_workflows: workflows[:3]
IdentifyWorkflows(d) ==
    LET workflows == WorkflowsFrom(d, 1, {}, <<>>)
    IN  SubSeq(workflows, 1, Min(Len(workflows), MaxWorkflows))

\* _generate_workflow_e2e_tests: a happy path and an error path test for a
\* workflow of two nodes or more
GenerateWorkflowE2eTests(workflow) ==
    IF Len(workflow) < 2
    THEN <<>>
    ELSE <<TestCase("happy_path", "e2e", workflow),
           TestCase("error_path", "e2e", workflow)>>

\* _generate_e2e_test_file: the tests of every identified workflow
GenerateE2eTestFile(d, language) ==
    LET workflows == IdentifyWorkflows(d)
    IN  BuildTestFile("e2e_tests", GetE2eTestFilename(language),
                      Flatten([i \in 1..Len(workflows) |->
                                  GenerateWorkflowE2eTests(workflows[i])]),
                      language)

\* the TestScaffold of generate_test_scaffold with its metadata
ScaffoldOfFiles(d, language, test_files) ==
    TestScaffold(language, test_files,
        [language |-> language,
         test_file_count |-> Len(test_files),
         total_test_cases |->
             Len(Flatten([i \in 1..Len(test_files) |-> test_files[i].test_cases])),
         diagram_type |-> d.diagram_type])

\* generate_test_scaffold: any exception inside leaves as a
\* SpecificationGenerationError of stage "test_generation".
GenerateTestScaffold(d, acceptance_criteria, language) ==
    LET unit_test_file == GenerateUnitTestFile(d, acceptance_criteria, language)
    IN  IF unit_test_file.raised # ""
        THEN Raised("SpecificationGenerationError", "test_generation")
        ELSE Ok(ScaffoldOfFiles(d, language,
                    <<unit_test_file.value, GenerateIntegrationTestFile(d, language)>>
                    \o (IF Len(d.edges) > 2
                        THEN <<GenerateE2eTestFile(d, language)>>
                        ELSE <<>>)))

ScaffoldFailure_Propagated(failure) == failure

\* "except Exception as e: # Log error but continue without tests": the handler
\* around generate_test_scaffold prints a warning; nothing is raised further
ScaffoldFailure(failure) == Ok(None)

\* the test_scaffold of generate_specification: None unless include_tests
RequestedScaffold(d, acceptance_criteria, include_tests, test_language) ==
    IF ~include_tests THEN Ok(None)
    ELSE LET scaffold == GenerateTestScaffold(d, acceptance_criteria, test_language)
         IN  IF scaffold.raised # "" THEN ScaffoldFailure(scaffold)
             ELSE Ok(Some(scaffold.value))

\* the metadata dict of generate_specification, without its timestamp and
\* word count
SpecificationMetadata(d, sections, acceptance_criteria, include_tests, test_language) ==
    [diagram_type |-> d.diagram_type,
     node_count |-> Len(d.nodes),
     edge_count |-> Len(d.edges),
     section_count |-> Len(sections),
     acceptance_criteria_count |-> Len(acceptance_criteria),
     includes_tests |-> include_tests,
     test_language |-> IF include_tests THEN Some(test_language) ELSE None]

GeneratedSpecification(title, sections, acceptance_criteria, metadata, test_scaffold) ==
    [title |-> title, sections |-> sections,
     acceptance_criteria |-> acceptance_criteria, metadata |-> metadata,
     test_scaffold |-> test_scaffold]

\* generate_specification.  An exception that reaches the outer handler leaves
\* unchanged when it is a SpecificationGenerationError and as one of stage
\* "unknown", carrying the original type name, when it is not.
GenerateSpecification(d, project_name, include_tests, test_language) ==
    IF ValidateDiagramData(d) # ""
    THEN SpecificationGenerationError("input_validation", ValidateDiagramData(d), "")
    ELSE LET title == GenerateTitle(d[1].diagram_type, project_name)
             sections == GenerateSections(d[1].diagram_type)
             acceptance_criteria == GenerateAcceptanceCriteria(d[1])
             test_scaffold == RequestedScaffold(d[1], acceptance_criteria,
                                                include_tests, test_language)
         IN  IF test_scaffold.raised = "SpecificationGenerationError"
             THEN SpecificationGenerationError(test_scaffold.stage,
                      "Failed to generate test scaffold", "")
             ELSE IF test_scaffold.raised # ""
             THEN SpecificationGenerationError("unknown",
                      "Unexpected error during specification generation",
                      test_scaffold.raised)
             ELSE ReturnedSpecification(
                      GeneratedSpecification(title, sections, acceptance_criteria,
                          SpecificationMetadata(d[1], sections, acceptance_criteria,
                                                include_tests, test_language),
                          test_scaffold.value))

\* the caller's DiagramData object as a generate_specification call leaves
\* it: the method and its helpers read the nodes, edges and type and assign
\* to none of them
DiagramLeftByGenerateSpecification(d) == d

-----------------------------------------------------------------------------
(* One generate_specification call                                         *)

\* the diagrams generate_diagram returns
ReturnedDiagrams ==
    {GenerateDiagram(NewEngine, c).outcome.diagram :
        c \in {x \in ContentsOver({EntityA, EntityB, EntityLS}) :
                  GenerateDiagram(NewEngine, x).outcome.kind = "returned"}}

\* d with one more edge ahead of its own, from its first node to an id that
\* no node has
WithUnknownTarget(d) ==
    IF Len(d.nodes) = 0 THEN d
    ELSE [d EXCEPT !.edges =
             <<Edge(d.nodes[1].id, <<"Z", "_", "9">>, <<>>, "-->", "creates")>> \o @]

\* the diagram_data arguments: None, a returned diagram, a returned diagram
\* whose nodes or whose syntax a caller has emptied, or one to which a caller
\* has added an edge to an unknown node
DiagramArguments ==
    {None} \cup ReturnedDiagrams
    \cup {Some([d[1] EXCEPT !.nodes = <<>>]) : d \in ReturnedDiagrams}
    \cup {Some([d[1] EXCEPT !.mermaid_syntax = <<>>]) : d \in ReturnedDiagrams}
    \cup {Some(WithUnknownTarget(d[1])) : d \in ReturnedDiagrams}

ProjectName == <<"System">>

SpecRequest(d, include_tests, test_language) ==
    [diagram_data |-> d, include_tests |-> include_tests,
     test_language |-> test_language]

InitDoc ==
    /\ node_counter = NewEngine.node_counter
    /\ node_id_map = NewEngine.node_id_map
    /\ content = None
    /\ outcome = Idle
    /\ entry_counter = 0
    /\ threads = NoThreads
    /\ DocIdle
    /\ ParseIdle
    /\ HelperIdle

\* the caller passes a diagram, include_tests and test_language to
\* generator.generate_specification
CallGenerateSpecification(d, include_tests, test_language) ==
    /\ specification.kind = "idle"
    /\ spec_request' = Some(SpecRequest(d, include_tests, test_language))
    /\ specification' = Pending
    /\ UNCHANGED <<engineVars, parseVars, helperVars>>

\* generate_specification runs from its first line to its return or raise
RunGenerateSpecification ==
    /\ specification.kind = "pending"
    /\ specification' = GenerateSpecification(spec_request[1].diagram_data, ProjectName,
                                              spec_request[1].include_tests,
                                              spec_request[1].test_language)
    /\ spec_request' =
           Some([spec_request[1] EXCEPT
                    !.diagram_data = DiagramLeftByGenerateSpecification(@)])
    /\ UNCHANGED <<engineVars, parseVars, helperVars>>

NextDoc ==
    \/ \E d \in DiagramArguments, include_tests \in BOOLEAN,
          test_language \in ProgrammingLanguages :
           CallGenerateSpecification(d, include_tests, test_language)
    \/ RunGenerateSpecification

SpecDoc == InitDoc /\ [][NextDoc]_vars

DocFinished == specification.kind \notin {"idle", "pending"}

\* the call was made with include_tests = true on a diagram that passes
\* _validate_diagram_data
TestsRequested ==
    /\ DocFinished
    /\ spec_request[1].include_tests
    /\ ValidateDiagramData(spec_request[1].diagram_data) = ""

\* the test cases of a file that are about a node
TestsOfNode(file, node) ==
    {i \in 1..Len(file.test_cases) : file.test_cases[i].subject = node}

\* C5 (as stated): whenever generate_specification is called with
\* include_tests = true on a valid diagram and returns, the specification
\* carries a non-null test scaffold whose unit test file is named by the
\* requested language's convention and holds a test case for every node.
C5_ScaffoldReturned ==
    (TestsRequested /\ specification.kind = "returned")
        => /\ ~IsNone(specification.generated[1].test_scaffold)
           /\ LET scaffold == specification.generated[1].test_scaffold[1]
                  d == spec_request[1].diagram_data[1]
              IN  /\ Len(scaffold.test_files) > 0
                  /\ scaffold.test_files[1].filename
                         = GetUnitTestFilename(spec_request[1].test_language)
                  /\ \A i \in 1..Len(d.nodes) :
                         TestsOfNode(scaffold.test_files[1], d.nodes[i]) # {}

\* the scaffold generation of the call failed
ScaffoldFailed ==
    /\ TestsRequested
    /\ GenerateTestScaffold(spec_request[1].diagram_data[1],
                            GenerateAcceptanceCriteria(spec_request[1].diagram_data[1]),
                            spec_request[1].test_language).raised # ""

-----------------------------------------------------------------------------
(* text_parser.py: parse_text.  The linguistic analysis of a non-blank     *)
(* text (self.nlp and the extraction, typing and scoring built on its      *)
(* Doc) is the environment of this step: what it yields, or the exception  *)
(* it raises, is an input of the step.  parse_text has no try statement,   *)
(* so an exception raised under it leaves parse_text as it is.             *)

\* the keys of the dict scores in insertion order
score_order == <<"erd", "sequence", "class", "process", "flowchart">>

\* the floor below which the best score does not count, in hundredths
MinBestScore == 30

\* max(scores.items(), key=lambda x: x[1]): the first item with the top score
BestType(scores) ==
    LET IsBest(i) == \A j \in 1..Len(score_order) :
                         scores[score_order[j]] <= scores[score_order[i]]
        first == CHOOSE i \in 1..Len(score_order) :
                     IsBest(i) /\ \A h \in 1..(i - 1) : ~IsBest(h)
    IN  score_order[first]

\* determine_diagram_type without the fallback to flowchart
DetermineDiagramType_NoFallback(scores) == BestType(scores)

\* determine_diagram_type, on the scores its five helpers computed
DetermineDiagramType(scores) ==
    LET best_type == BestType(scores)
    IN  IF scores[best_type] < MinBestScore THEN "flowchart" ELSE best_type

\* sorted(scores.items(), key=lambda x: x[1], reverse=True) with the ties
\* in the opposite order
GetDiagramTypeSuggestions_TiesReversed(scores) ==
    LET Before(i, j) == scores[score_order[j]] > scores[score_order[i]]
                        \/ (scores[score_order[j]] = scores[score_order[i]] /\ j > i)
        Place(i) == 1 + Cardinality({j \in 1..Len(score_order) : Before(i, j)})
    IN  [p \in 1..Len(score_order) |->
            LET i == CHOOSE i \in 1..Len(score_order) : Place(i) = p
            IN  <<score_order[i], scores[score_order[i]]>>]

\* get_diagram_type_suggestions, on the scores its five helpers computed:
\* the items by descending score, equal scores in insertion order (sorted is
\* stable, also with reverse=True)
GetDiagramTypeSuggestions(scores) ==
    LET Before(i, j) == scores[score_order[j]] > scores[score_order[i]]
                        \/ (scores[score_order[j]] = scores[score_order[i]] /\ j < i)
        Place(i) == 1 + Cardinality({j \in 1..Len(score_order) : Before(i, j)})
    IN  [p \in 1..Len(score_order) |->
            LET i == CHOOSE i \in 1..Len(score_order) : Place(i) = p
            IN  <<score_order[i], scores[score_order[i]]>>]

\* the base score of _calculate_flowchart_score and the cap of every score,
\* in hundredths
FlowchartBaseScore == 30

MaxScore == 100

\* a _calculate_*_score: what the indicators found add up to, from base, capped
CalculateScore(base, indicators) == Min(base + indicators, MaxScore)

\* the scores of the five helpers for what their indicators add up to
ScoresOf(indicators) ==
    [t \in DiagramTypes |->
        CalculateScore(IF t = "flowchart" THEN FlowchartBaseScore ELSE 0, indicators[t])]

MaxTextLen == 2

\* the text arguments: None, or a str of at most MaxTextLen characters
Texts == {None} \cup {Some(s) : s \in SeqsUpTo({"x", " "}, MaxTextLen)}

\* what a parse_text call leaves: the ParsedContent it returns with its
\* diagram_type_suggestions, or the exception that left it
ReturnedContent(parsed_content, diagram_type_suggestions) ==
    [kind |-> "returned", content |-> Some(parsed_content),
     diagram_type_suggestions |-> diagram_type_suggestions]

RaisedFromParse(type_name) ==
    [kind |-> type_name, content |-> None, diagram_type_suggestions |-> <<>>]

\* the suggestions of the result for a blank text (scores in hundredths)
BlankSuggestions ==
    <<<<"flowchart", 30>>, <<"erd", 0>>, <<"sequence", 0>>, <<"class", 0>>,
      <<"process", 0>>>>

\* "not text or not text.strip()"
IsBlankArgument(t) == IsNone(t) \/ Len(t[1]) = 0 \/ Len(Strip(t[1])) = 0

\* what the indicators of one score helper can add up to, in hundredths
IndicatorValues == {0, 30, 60}

\* what the indicators of _calculate_flowchart_score can add up to
FlowchartIndicatorValues == {0, 30}

\* what the analysis of a non-blank text can yield: the entities,
\* relationships and confidence computed from the Doc and what the
\* indicators of the five score helpers add up to, or the ValueError with
\* which self.nlp refuses a text
Analyses ==
    {Raised("ValueError", "")}
    \cup {Ok([entities |-> e, relationships |-> <<>>, indicators |-> i, confidence |-> 80]) :
              e \in SeqsUpTo({EntityA}, MaxEntities),
              i \in {f \in [DiagramTypes -> IndicatorValues] :
                         f["flowchart"] \in FlowchartIndicatorValues}}

\* parse_text; raw_text is the argument itself, None included
ParseText(t, analysis) ==
    IF IsBlankArgument(t)
    THEN ReturnedContent(ParsedContent(<<>>, <<>>, "flowchart", 0,
                                       IF IsNone(t) THEN None ELSE t[1]),
                         BlankSuggestions)
    ELSE IF analysis.raised # ""
    THEN RaisedFromParse(analysis.raised)
    ELSE ReturnedContent(ParsedContent(analysis.value.entities,
                                       analysis.value.relationships,
                                       DetermineDiagramType(ScoresOf(analysis.value.indicators)),
                                       analysis.value.confidence, t[1]),
                         GetDiagramTypeSuggestions(ScoresOf(analysis.value.indicators)))

InitParse ==
    /\ node_counter = NewEngine.node_counter
    /\ node_id_map = NewEngine.node_id_map
    /\ content = None
    /\ outcome = Idle
    /\ entry_counter = 0
    /\ threads = NoThreads
    /\ DocIdle
    /\ ParseIdle
    /\ HelperIdle

\* the caller passes t to parser.parse_text
CallParseText(t) ==
    /\ parsed.kind = "idle"
    /\ text' = t
    /\ parsed' = [kind |-> "pending", content |-> None, diagram_type_suggestions |-> <<>>]
    /\ UNCHANGED <<engineVars, docVars, helperVars>>

\* parse_text runs from its first line to its return, or to the exception
\* that leaves it
RunParseText ==
    /\ parsed.kind = "pending"
    /\ \E analysis \in Analyses : parsed' = ParseText(text, analysis)
    /\ UNCHANGED <<engineVars, docVars, helperVars, text>>

NextParse ==
    \/ \E t \in Texts : CallParseText(t)
    \/ RunParseText

SpecParse == InitParse /\ [][NextParse]_vars

\* the ways a stage may leave a call: its return, or its own error classes
StageOutcomes ==
    {"idle", "pending", "returned", "DiagramGenerationError",
     "DiagramValidationError", "SpecificationGenerationError"}

\* C10 (as stated): no raw internal exception crosses a stage boundary: every
\* failure inside parse_text, generate_diagram or generate_specification
\* leaves the call as that stage's GenerationError or as ValidationError,
\* never as any other exception type.
C10_NoRawException ==
    /\ parsed.kind \in StageOutcomes
    /\ outcome.kind \in StageOutcomes
    /\ specification.kind \in StageOutcomes

-----------------------------------------------------------------------------
(* The node list of a returned diagram (SpecGen)                           *)

\* the names of the entities in the order of their first appearance
FirstSeenNames(entities) ==
    LET IsFirst(i) == \A j \in 1..(i - 1) : entities[j].name # entities[i].name
        Keep[i \in 0..Len(entities)] ==
            IF i = 0 THEN <<>>
            ELSE IF IsFirst(i) THEN Append(Keep[i - 1], entities[i].name)
                 ELSE Keep[i - 1]
    IN  Keep[Len(entities)]

\* C11 (as stated): the node list of the DiagramData returned by
\* generate_diagram holds exactly one node per distinct entity name of the
\* input, in the order in which those names first appear in the entity list.
C11_OneNodePerDistinctName ==
    outcome.kind = "returned" =>
        LET names == FirstSeenNames(content[1].entities)
            nodes == outcome.diagram[1].nodes
        IN  /\ Len(nodes) = Len(names)
            /\ \A k \in 1..Len(names) :
                /\ nodes[k].id = MakeNodeId(names[k], k)
                /\ nodes[k].label = CleanLabel(names[k])

\* re.sub(r"\s+", " ", name.strip()): the label before any truncation
NormalizedName(name) == CollapseWhitespace(Strip(name))

EndsWithEllipsis(label) ==
    /\ Len(label) >= 3
    /\ SubSeq(label, Len(label) - 2, Len(label)) = <<".", ".", ".">>

\* C12: every node of a DiagramData returned by generate_diagram has a label
\* of at most 30 characters, and every label that truncation shortened (one
\* that is not the whitespace-normalized name of an input entity) ends in
\* "...".
C12_LabelsAtMost30 ==
    outcome.kind = "returned" =>
        \A k \in 1..Len(outcome.diagram[1].nodes) :
            LET label == outcome.diagram[1].nodes[k].label
            IN  /\ Len(label) <= 30
                /\ \/ \E i \in 1..Len(content[1].entities) :
                          label = NormalizedName(content[1].entities[i].name)
                   \/ EndsWithEllipsis(label)

\* a diagram was returned for an entity whose normalized name has more than
\* 30 characters, and its node carries a 30-character label ending in "..."
C12_Witness ==
    /\ outcome.kind = "returned"
    /\ Len(outcome.diagram[1].nodes) = 1
    /\ Len(NormalizedName(content[1].entities[1].name)) > 30
    /\ Len(outcome.diagram[1].nodes[1].label) = 30
    /\ EndsWithEllipsis(outcome.diagram[1].nodes[1].label)
    /\ outcome.diagram[1].nodes[1].label[KeptLabelLen] = " "

-----------------------------------------------------------------------------
(* TextParserService._deduplicate_relationships                            *)

\* a Relationship as the parser builds it, with its confidence in hundredths
ParsedRelationship(source, target, type, confidence) ==
    [source |-> source, target |-> target, type |-> type, confidence |-> confidence]

symmetric_types == {"associated_with", "communicates_with"}

\* index of key among the keys of seen, 0 when it is absent
SeenIndex(seen, key) ==
    IF \E i \in 1..Len(seen) : seen[i].key = key
    THEN CHOOSE i \in 1..Len(seen) : seen[i].key = key
    ELSE 0

\* a loop body that keeps whichever relationship of a key came first
SeenAfter_FirstKept(seen, rel) ==
    LET key == <<rel.source, rel.target, rel.type>>
        reverse_key == <<rel.target, rel.source, rel.type>>
    IN  IF SeenIndex(seen, key) > 0
           \/ (SeenIndex(seen, reverse_key) > 0 /\ rel.type \in symmetric_types)
        THEN seen
        ELSE Append(seen, [key |-> key, rel |-> rel])

\* the body of the first loop: seen after rel
SeenAfter(seen, rel) ==
    LET key == <<rel.source, rel.target, rel.type>>
        reverse_key == <<rel.target, rel.source, rel.type>>
        at == SeenIndex(seen, key)
        reverse_at == SeenIndex(seen, reverse_key)
    IN  IF at > 0
        THEN IF rel.confidence > seen[at].rel.confidence
             THEN [seen EXCEPT ![at].rel = rel]
             ELSE seen
        ELSE IF reverse_at > 0 /\ rel.type \in symmetric_types
        THEN IF rel.confidence > seen[reverse_at].rel.confidence
             THEN [seen EXCEPT ![reverse_at].rel = rel]
             ELSE seen
        ELSE Append(seen, [key |-> key, rel |-> rel])

\* the dict seen after the first loop, in insertion order
SeenOf(relationships) ==
    LET Seen[i \in 0..Len(relationships)] ==
            IF i = 0 THEN <<>> ELSE SeenAfter(Seen[i - 1], relationships[i])
    IN  Seen[Len(relationships)]

\* stronger_exists of the second loop
StrongerExists(seen, rel) ==
    \E i \in 1..Len(seen) :
        /\ seen[i].rel # rel
        /\ seen[i].rel.source = rel.source
        /\ seen[i].rel.target = rel.target
        /\ seen[i].rel.confidence > 50

\* _deduplicate_relationships
DeduplicateRelationships(relationships) ==
    LET seen == SeenOf(relationships)
        values == [i \in 1..Len(seen) |-> seen[i].rel]
        Kept(rel) ==
            IF rel.type = "associated_with" /\ rel.confidence < 50
            THEN ~StrongerExists(seen, rel)
            ELSE TRUE
    IN  SelectSeq(values, Kept)

MaxRelationshipList == 3

\* relationships between two entities, in both directions, as the extractors
\* score them: 0.3 for a co-occurrence, 0.6 and 0.8 for a matched pattern
ParsedRelationshipPool ==
    {ParsedRelationship(p[1], p[2], t, c) :
        p \in {<<"A", "B">>, <<"B", "A">>},
        t \in {"associated_with", "uses"},
        c \in {30, 60, 80}}

RelationshipLists == SeqsUpTo(ParsedRelationshipPool, MaxRelationshipList)

HelperCall(name, args) == Some([name |-> name, args |-> args])

\* the parser passes the collected relationships to _deduplicate_relationships
CallDeduplicateRelationships(relationships) ==
    /\ helper_call = None
    /\ helper_call' = HelperCall("_deduplicate_relationships", relationships)
    /\ helper_result' = None
    /\ UNCHANGED <<engineVars, docVars, parseVars, helper_frame>>

\* _deduplicate_relationships runs to its return
RunDeduplicateRelationships ==
    /\ helper_call # None
    /\ helper_call[1].name = "_deduplicate_relationships"
    /\ helper_result = None
    /\ helper_result' = Some(DeduplicateRelationships(helper_call[1].args))
    /\ UNCHANGED <<engineVars, docVars, parseVars, helper_call, helper_frame>>

NextDedup ==
    \/ \E relationships \in RelationshipLists :
           CallDeduplicateRelationships(relationships)
    \/ RunDeduplicateRelationships

SpecDedup == Init /\ [][NextDedup]_vars

HelperReturned(name) ==
    /\ helper_call # None
    /\ helper_call[1].name = name
    /\ helper_result # None

\* C13 (as stated): after relationship deduplication no associated_with
\* relationship with confidence below 0.5 remains in the result if another
\* relationship of the result with confidence above 0.5 connects the same
\* pair of entities, whichever direction the stronger one points.
C13_NoWeakAssociationBesideStronger ==
    HelperReturned("_deduplicate_relationships") =>
        LET result == helper_result[1]
        IN  \A i, j \in 1..Len(result) :
                (/\ i # j
                 /\ result[i].type = "associated_with"
                 /\ result[i].confidence < 50
                 /\ result[j].confidence > 50
                 /\ {result[j].source, result[j].target}
                        = {result[i].source, result[i].target})
                    => FALSE

-----------------------------------------------------------------------------
(* TextParserService.extract_entities                                      *)

UpperCase == <<"A", "B", "R", "U", "N">>

LowerCase == <<"a", "b", "r", "u", "n">>

\* str.lower() without the case folding
Lower_CaseKept(s) == s

\* str.lower() over the letters the model's names use
Lower(s) ==
    [i \in 1..Len(s) |->
        IF \E k \in 1..Len(UpperCase) : UpperCase[k] = s[i]
        THEN LowerCase[CHOOSE k \in 1..Len(UpperCase) : UpperCase[k] = s[i]]
        ELSE s[i]]

\* keyword in name
Contains(name, keyword) ==
    \E i \in 1..(Len(name) - Len(keyword) + 1) :
        SubSeq(name, i, i + Len(keyword) - 1) = keyword

\* one member of each keyword set of __init__; "run" is the one the model's
\* names can contain
process_keywords == {<<"r", "u", "n">>}

system_keywords == {<<"a", "p", "i">>}

data_keywords == {<<"d", "a", "t", "a">>}

actor_words == {<<"u", "s", "e", "r">>, <<"a", "d", "m", "i", "n">>,
                <<"c", "u", "s", "t", "o", "m", "e", "r">>,
                <<"c", "l", "i", "e", "n", "t">>}

\* len(s.split())
WordCount(s) ==
    LET cleaned == CollapseWhitespace(Strip(s))
        IsSpace(c) == c = " "
    IN  IF Len(cleaned) = 0 THEN 0 ELSE 1 + Len(SelectSeq(cleaned, IsSpace))

\* an Entity as the parser builds it, with its confidence in hundredths
ParsedEntity(name, type, properties, confidence) ==
    [name |-> name, type |-> type, properties |-> properties,
     confidence |-> confidence]

\* _classify_entity_type; spacy_label is "" when the caller passes none
ClassifyEntityType(entity_name, spacy_label) ==
    LET name_lower == Lower(entity_name)
    IN  IF spacy_label = "PERSON" THEN "actor"
        ELSE IF spacy_label = "ORG" THEN "system"
        ELSE IF spacy_label = "EVENT" THEN "event"
        ELSE IF \E keyword \in process_keywords : Contains(name_lower, keyword)
        THEN "process"
        ELSE IF \E keyword \in system_keywords : Contains(name_lower, keyword)
        THEN "system"
        ELSE IF \E keyword \in data_keywords : Contains(name_lower, keyword)
        THEN "data"
        ELSE IF \E keyword \in actor_words : Contains(name_lower, keyword)
        THEN "actor"
        ELSE "object"

entity_labels == {"PERSON", "ORG", "PRODUCT", "EVENT"}

ProcessedNames(entities) == {Lower(entities[i].name) : i \in 1..Len(entities)}

\* the first loop's body: entities after the named entity ent
EntitiesAfterEnt(entities, ent) ==
    LET entity_name == Strip(ent.text)
    IN  IF /\ ent.label \in entity_labels
           /\ Len(entity_name) > 0
           /\ Lower(entity_name) \notin ProcessedNames(entities)
        THEN Append(entities,
                 ParsedEntity(entity_name, ClassifyEntityType(entity_name, ent.label),
                              << <<"spacy_label", ent.label>> >>, 80))
        ELSE entities

\* the second loop's body: entities after the noun phrase chunk
EntitiesAfterChunk(entities, chunk) ==
    LET entity_name == Strip(chunk.text)
    IN  IF /\ Len(entity_name) > 0
           /\ WordCount(entity_name) <= 3
           /\ Lower(entity_name) \notin ProcessedNames(entities)
           /\ ~chunk.stop_non_alpha
        THEN Append(entities,
                 ParsedEntity(entity_name, ClassifyEntityType(entity_name, ""),
                              << <<"source", "noun_phrase">> >>, 60))
        ELSE entities

\* extract_entities
ExtractEntities(doc) ==
    LET Named[i \in 0..Len(doc.ents)] ==
            IF i = 0 THEN <<>> ELSE EntitiesAfterEnt(Named[i - 1], doc.ents[i])
        All[i \in 0..Len(doc.noun_chunks)] ==
            IF i = 0 THEN Named[Len(doc.ents)]
            ELSE EntitiesAfterChunk(All[i - 1], doc.noun_chunks[i])
    IN  All[Len(doc.noun_chunks)]

MaxSpans == 2

\* named entities spaCy can report: a name in either case, with trailing
\* whitespace, or blank; with a label the parser keeps or one it skips
EntPool ==
    {[text |-> t, label |-> "PERSON"] : t \in {<<"A">>, <<"a", " ">>, <<" ">>}}
    \cup {[text |-> <<"A">>, label |-> "GPE"]}

\* noun phrases spaCy can report: the same name in either case, a process
\* name, a phrase of four words, and one holding a non-alphabetic stop token
ChunkPool ==
    {[text |-> t, stop_non_alpha |-> FALSE] :
        t \in {<<"a">>, <<"A">>, <<"R", "u", "n">>,
               <<"a", " ", "b", " ", "a", " ", "b">>}}
    \cup {[text |-> <<"b">>, stop_non_alpha |-> TRUE]}

Docs ==
    {[ents |-> e, noun_chunks |-> c] :
        e \in SeqsUpTo(EntPool, MaxSpans), c \in SeqsUpTo(ChunkPool, MaxSpans)}

\* parse_text passes the spaCy document to extract_entities
CallExtractEntities(doc) ==
    /\ helper_call = None
    /\ helper_call' = HelperCall("extract_entities", doc)
    /\ helper_result' = None
    /\ UNCHANGED <<engineVars, docVars, parseVars, helper_frame>>

\* extract_entities runs to its return
RunExtractEntities ==
    /\ helper_call # None
    /\ helper_call[1].name = "extract_entities"
    /\ helper_result = None
    /\ helper_result' = Some(ExtractEntities(helper_call[1].args))
    /\ UNCHANGED <<engineVars, docVars, parseVars, helper_call, helper_frame>>

NextEntities ==
    \/ \E doc \in Docs : CallExtractEntities(doc)
    \/ RunExtractEntities

SpecEntities == Init /\ [][NextEntities]_vars

\* the candidates of a document in the order the parser meets them: the
\* named entities with a kept label, then the noun phrases of at most three
\* words without a non-alphabetic stop token, blank names left out
CandidatesOf(doc) ==
    LET IsEnt(ent) == ent.label \in entity_labels /\ Len(Strip(ent.text)) > 0
        IsChunk(chunk) ==
            /\ Len(Strip(chunk.text)) > 0
            /\ WordCount(chunk.text) <= 3
            /\ ~chunk.stop_non_alpha
        ents == SelectSeq(doc.ents, IsEnt)
        chunks == SelectSeq(doc.noun_chunks, IsChunk)
    IN  [i \in 1..Len(ents) |-> [name |-> Strip(ents[i].text), confidence |-> 80]]
        \o [i \in 1..Len(chunks) |-> [name |-> Strip(chunks[i].text), confidence |-> 60]]

\* the same name under case-insensitive comparison
SameNameIgnoringCase(a, b) ==
    /\ Len(a) = Len(b)
    /\ \A i \in 1..Len(a) :
        \/ a[i] = b[i]
        \/ \E k \in 1..Len(UpperCase) :
               {a[i], b[i]} = {UpperCase[k], LowerCase[k]}

\* C14: the entities returned by one parse have pairwise distinct names under
\* case-insensitive comparison, and for each such name the entity kept is the
\* first candidate encountered (named entities before noun phrases).
C14_DistinctNamesFirstKept ==
    HelperReturned("extract_entities") =>
        LET entities == helper_result[1]
            candidates == CandidatesOf(helper_call[1].args)
        IN  /\ \A i, j \in 1..Len(entities) :
                    i # j => ~SameNameIgnoringCase(entities[i].name, entities[j].name)
            /\ \A i \in 1..Len(entities) :
                \E k \in 1..Len(candidates) :
                    /\ candidates[k].name = entities[i].name
                    /\ candidates[k].confidence = entities[i].confidence
                    /\ \A h \in 1..(k - 1) :
                        ~SameNameIgnoringCase(candidates[h].name, entities[i].name)
            /\ \A k \in 1..Len(candidates) :
                \E i \in 1..Len(entities) :
                    SameNameIgnoringCase(candidates[k].name, entities[i].name)

\* a named entity "A" was kept, and a noun phrase "a" after it was dropped
C14_Witness ==
    /\ HelperReturned("extract_entities")
    /\ Len(helper_call[1].args.ents) > 0
    /\ \E k \in 1..Len(helper_call[1].args.noun_chunks) :
           helper_call[1].args.noun_chunks[k].text = <<"a">>
    /\ Len(helper_result[1]) = 1
    /\ helper_result[1][1].name = <<"A">>
    /\ helper_result[1][1].confidence = 80

-----------------------------------------------------------------------------
(* TextParserService.determine_diagram_type                                *)

\* scores in hundredths: none, just below the floor, the floor, above it
ScoreValues == {0, 29, 30, 60}

ScoreTables == [DiagramTypes -> ScoreValues]

\* parse_text asks for the diagram type; the helpers have scored the text
CallDetermineDiagramType(scores) ==
    /\ helper_call = None
    /\ helper_call' = HelperCall("determine_diagram_type", scores)
    /\ helper_result' = None
    /\ UNCHANGED <<engineVars, docVars, parseVars, helper_frame>>

\* determine_diagram_type runs to its return
RunDetermineDiagramType ==
    /\ helper_call # None
    /\ helper_call[1].name = "determine_diagram_type"
    /\ helper_result = None
    /\ helper_result' = Some(DetermineDiagramType(helper_call[1].args))
    /\ UNCHANGED <<engineVars, docVars, parseVars, helper_call, helper_frame>>

NextType ==
    \/ \E scores \in ScoreTables : CallDetermineDiagramType(scores)
    \/ RunDetermineDiagramType

SpecType == Init /\ [][NextType]_vars

HighestScore(scores) ==
    CHOOSE v \in ScoreValues :
        /\ \E t \in DiagramTypes : scores[t] = v
        /\ \A t \in DiagramTypes : scores[t] <= v

\* C15: the suggested diagram type is a type with the highest score, except
\* that whenever the highest of the five scores is below 0.3 the suggested
\* type is flowchart.
C15_ArgMaxWithFloor ==
    HelperReturned("determine_diagram_type") =>
        LET scores == helper_call[1].args
            suggested == helper_result[1]
        IN  IF HighestScore(scores) < 30
            THEN suggested = "flowchart"
            ELSE scores[suggested] = HighestScore(scores)

\* the best score, 0.29, belongs to erd and flowchart scores less, yet the
\* suggestion is flowchart
C15_Witness ==
    /\ HelperReturned("determine_diagram_type")
    /\ helper_call[1].args["erd"] = 29
    /\ helper_call[1].args["flowchart"] = 0
    /\ HighestScore(helper_call[1].args) = 29
    /\ helper_result[1] = "flowchart"

-----------------------------------------------------------------------------
(* TextParserService._calculate_confidence                                 *)

RECURSIVE SumConfidence(_)
\* sum(entity.confidence for entity in entities), in hundredths
SumConfidence(entities) ==
    IF Len(entities) = 0 THEN 0
    ELSE Head(entities).confidence + SumConfidence(Tail(entities))

\* round(num / den, 2) in hundredths: the integer nearest to num / den
\* (no input of the model falls halfway between two hundredths)
RoundRatio(num, den) == (2 * num + den) \div (2 * den)

\* the bonus of one relationship and the cap of the bonus, in hundredths
RelationshipBonus == 10

MaxRelationshipBonus == 30

\* _calculate_confidence without the min(..., 1.0)
CalculateConfidence_Unclamped(entities, relationships) ==
    IF Len(entities) = 0 THEN 0
    ELSE RoundRatio(SumConfidence(entities)
                    + Min(Len(relationships) * RelationshipBonus, MaxRelationshipBonus)
                      * Len(entities),
                    Len(entities))

\* _calculate_confidence; the sum entity_confidence + relationship_bonus is
\* kept as the fraction (sum + bonus * n) / n
CalculateConfidence(entities, relationships) ==
    IF Len(entities) = 0 THEN 0
    ELSE LET n == Len(entities)
             relationship_bonus ==
                 Min(Len(relationships) * RelationshipBonus, MaxRelationshipBonus)
             total == SumConfidence(entities) + relationship_bonus * n
         IN  IF total > 100 * n THEN 100 ELSE RoundRatio(total, n)

MaxScoredEntities == 3

MaxScoredRelationships == 4

\* entity lists with the confidences of named entities and noun phrases
ScoredEntityLists ==
    SeqsUpTo({ParsedEntity(<<"A">>, "object", <<>>, c) : c \in {60, 80}},
             MaxScoredEntities)

\* relationship lists of every length up to the bound
ScoredRelationshipLists ==
    {[i \in 1..k |-> ParsedRelationship("A", "B", "uses", 60)] :
        k \in 0..MaxScoredRelationships}

\* parse_text passes the entities and relationships to _calculate_confidence
CallCalculateConfidence(entities, relationships) ==
    /\ helper_call = None
    /\ helper_call' = HelperCall("_calculate_confidence",
                          [entities |-> entities, relationships |-> relationships])
    /\ helper_result' = None
    /\ UNCHANGED <<engineVars, docVars, parseVars, helper_frame>>

\* _calculate_confidence runs to its return
RunCalculateConfidence ==
    /\ helper_call # None
    /\ helper_call[1].name = "_calculate_confidence"
    /\ helper_result = None
    /\ helper_result' = Some(CalculateConfidence(helper_call[1].args.entities,
                                                 helper_call[1].args.relationships))
    /\ UNCHANGED <<engineVars, docVars, parseVars, helper_call, helper_frame>>

NextConfidence ==
    \/ \E entities \in ScoredEntityLists, relationships \in ScoredRelationshipLists :
           CallCalculateConfidence(entities, relationships)
    \/ RunCalculateConfidence

SpecConfidence == Init /\ [][NextConfidence]_vars

\* C16: the overall parse confidence is 0 when there are no entities and
\* otherwise min(mean entity confidence + min(0.1 x relationship count, 0.3),
\* 1.0) rounded to 2 decimals; so it always lies between 0.0 and 1.0.
C16_ConfidenceFormula ==
    HelperReturned("_calculate_confidence") =>
        LET entities == helper_call[1].args.entities
            count == Len(helper_call[1].args.relationships)
            n == Len(entities)
            confidence == helper_result[1]
            bonus == IF count >= 3 THEN 30 ELSE 10 * count
            \* n times the exact value, in hundredths
            exact == IF SumConfidence(entities) + bonus * n > 100 * n
                     THEN 100 * n
                     ELSE SumConfidence(entities) + bonus * n
        IN  /\ confidence \in 0..100
            /\ n = 0 => confidence = 0
            /\ n > 0 => 2 * Abs(confidence * n - exact) <= n

\* the sum 0.8 + 0.3 was clamped to 1.0, with more than three relationships
C16_Witness ==
    /\ HelperReturned("_calculate_confidence")
    /\ Len(helper_call[1].args.entities) = 2
    /\ SumConfidence(helper_call[1].args.entities) = 160
    /\ Len(helper_call[1].args.relationships) = 4
    /\ helper_result[1] = 100

-----------------------------------------------------------------------------
(* One generate_test_scaffold call                                         *)

\* the diagram_data arguments: a returned diagram, one whose nodes a caller
\* has emptied, and one without nodes and with three edges
ScaffoldDiagrams ==
    {d[1] : d \in ReturnedDiagrams}
    \cup {[d[1] EXCEPT !.nodes = <<>>] : d \in ReturnedDiagrams}
    \cup {[d[1] EXCEPT !.nodes = <<>>, !.edges = @ \o @ \o @] : d \in ReturnedDiagrams}

\* the caller passes a diagram, its acceptance criteria and a language to
\* generator.generate_test_scaffold
CallGenerateTestScaffold(d, language) ==
    /\ helper_call = None
    /\ helper_call' = HelperCall("generate_test_scaffold",
                          [diagram_data |-> d,
                           acceptance_criteria |-> GenerateAcceptanceCriteria(d),
                           language |-> language])
    /\ helper_result' = None
    /\ UNCHANGED <<engineVars, docVars, parseVars, helper_frame>>

\* generate_test_scaffold runs to its return or raise
RunGenerateTestScaffold ==
    /\ helper_call # None
    /\ helper_call[1].name = "generate_test_scaffold"
    /\ helper_result = None
    /\ helper_result' = Some(GenerateTestScaffold(helper_call[1].args.diagram_data,
                                                  helper_call[1].args.acceptance_criteria,
                                                  helper_call[1].args.language))
    /\ UNCHANGED <<engineVars, docVars, parseVars, helper_call, helper_frame>>

NextScaffold ==
    \/ \E d \in ScaffoldDiagrams, language \in ProgrammingLanguages :
           CallGenerateTestScaffold(d, language)
    \/ RunGenerateTestScaffold

SpecScaffold == Init /\ [][NextScaffold]_vars

\* a test file without the language it was requested in
FileWithoutLanguage(file) ==
    [filename |-> file.filename, imports |-> file.imports,
     setup_code |-> file.setup_code, test_cases |-> file.test_cases,
     helper_methods |-> file.helper_methods, full_content |-> file.full_content]

\* C17 (as stated): for a requested test language other than python,
\* javascript or java, the generated test files are exactly the ones the
\* python templates produce (same file names, imports, setup and teardown,
\* test bodies and rendered file content), while the scaffold's language
\* field and metadata record the language that was requested.
C17_FallbackIsPython ==
    (/\ HelperReturned("generate_test_scaffold")
     /\ helper_call[1].args.language \notin {"python", "javascript", "java"}
     /\ helper_result[1].raised = "")
        => LET scaffold == helper_result[1].value
               python == GenerateTestScaffold(helper_call[1].args.diagram_data,
                             helper_call[1].args.acceptance_criteria, "python").value
           IN  /\ scaffold.language = helper_call[1].args.language
               /\ scaffold.metadata.language = helper_call[1].args.language
               /\ Len(scaffold.test_files) = Len(python.test_files)
               /\ \A i \in 1..Len(scaffold.test_files) :
                      FileWithoutLanguage(scaffold.test_files[i])
                          = FileWithoutLanguage(python.test_files[i])

-----------------------------------------------------------------------------
(* The acceptance criteria of a specification (SpecDoc)                    *)

\* the nodes of d that are the source or target of at least one edge
ConnectedNodes(d) ==
    {i \in 1..Len(d.nodes) :
        \E j \in 1..Len(d.edges) :
            d.edges[j].source_id = d.nodes[i].id \/ d.edges[j].target_id = d.nodes[i].id}

\* the edges of d whose source and target are both ids of nodes of d
KnownEdges(d) ==
    {j \in 1..Len(d.edges) :
        d.edges[j].source_id \in IdsOf(d.nodes) /\ d.edges[j].target_id \in IdsOf(d.nodes)}

WithPriority(criteria, priority) ==
    {i \in 1..Len(criteria) : criteria[i].priority = priority}

\* C18 (as stated): for every DiagramData accepted by generate_specification
\* with N nodes, C of them connected, and E edges, exactly N + C + E
\* acceptance criteria are produced: N of high priority, and C for the
\* connected nodes plus one per edge of medium priority.
C18_CriteriaCount ==
    specification.kind = "returned" =>
        LET d == spec_request[1].diagram_data[1]
            criteria == specification.generated[1].acceptance_criteria
        IN  /\ Len(criteria) = Len(d.nodes) + Cardinality(ConnectedNodes(d)) + Len(d.edges)
            /\ Cardinality(WithPriority(criteria, "high")) = Len(d.nodes)
            /\ Cardinality(WithPriority(criteria, "medium"))
                   = Cardinality(ConnectedNodes(d)) + Len(d.edges)

\* C18 (amended): the edges that get a criterion are the ones whose source
\* and target are both ids of nodes of the diagram; with E' such edges,
\* exactly N + C + E' criteria are produced, N of high priority and C + E' of
\* medium priority.
C18_CriteriaCountKnownEdges ==
    specification.kind = "returned" =>
        LET d == spec_request[1].diagram_data[1]
            criteria == specification.generated[1].acceptance_criteria
        IN  /\ Len(criteria)
                   = Len(d.nodes) + Cardinality(ConnectedNodes(d)) + Cardinality(KnownEdges(d))
            /\ Cardinality(WithPriority(criteria, "high")) = Len(d.nodes)
            /\ Cardinality(WithPriority(criteria, "medium"))
                   = Cardinality(ConnectedNodes(d)) + Cardinality(KnownEdges(d))

\* a specification was returned for a diagram of two nodes, an edge between
\* them and an edge to an unknown node: five criteria
C18_Witness ==
    /\ specification.kind = "returned"
    /\ Len(spec_request[1].diagram_data[1].nodes) = 2
    /\ Len(spec_request[1].diagram_data[1].edges) = 2
    /\ Cardinality(KnownEdges(spec_request[1].diagram_data[1])) = 1
    /\ Cardinality(ConnectedNodes(spec_request[1].diagram_data[1])) = 2
    /\ Len(specification.generated[1].acceptance_criteria) = 5

-----------------------------------------------------------------------------
(* One validate_diagram_comprehensive call on a diagram of many nodes      *)

\* a laid-out flowchart of n nodes and e edges; edge k leads from node
\* k mod n to its successor, so every edge refers to nodes of the diagram
DiagramOfSize(n, e) ==
    LET nodes == [i \in 1..n |->
                    Node(<<"N", "_">> \o IntToStr(i), <<"N">> \o IntToStr(i), "rect",
                         "process", <<>>,
                         Some(Position(margin + i * horizontal_spacing, margin)))]
        edges == [k \in 1..e |->
                    Edge(<<"N", "_">> \o IntToStr((k % n) + 1),
                         <<"N", "_">> \o IntToStr(((k + 1) % n) + 1),
                         <<>>, "-->", "flows_to")]
    IN  DiagramData("flowchart", GenerateMermaidSyntax("flowchart", nodes, edges),
                    nodes, edges, GenerateLayoutConfig("flowchart"), <<>>)

\* node counts around the 20 nodes at which node_complexity stops growing
NodeCounts == {0, 1, 13, 14, 19, 20, 21, 30}

\* edge counts around three edges per node, and the 1.5 edges per node at
\* which a diagram of 20 nodes or more scores exactly 0.8
EdgeCountsFor(n) ==
    IF n = 0 THEN {0}
    ELSE {0, n, (3 * n) \div 2, (3 * n) \div 2 + 1, 2 * n, 3 * n - 1, 3 * n, 3 * n + 1, 4 * n}

\* a caller passes a diagram to engine.validate_diagram_comprehensive
CallValidateDiagramComprehensive(n, e) ==
    /\ helper_call = None
    /\ helper_call' = HelperCall("validate_diagram_comprehensive", DiagramOfSize(n, e))
    /\ helper_result' = None
    /\ UNCHANGED <<engineVars, docVars, parseVars, helper_frame>>

\* validate_diagram_comprehensive runs to its return
RunValidateDiagramComprehensive ==
    /\ helper_call # None
    /\ helper_call[1].name = "validate_diagram_comprehensive"
    /\ helper_result = None
    /\ helper_result' = Some(ValidateDiagramComprehensive(helper_call[1].args))
    /\ UNCHANGED <<engineVars, docVars, parseVars, helper_call, helper_frame>>

NextComplexity ==
    \/ \E n \in NodeCounts : \E e \in EdgeCountsFor(n) :
           CallValidateDiagramComprehensive(n, e)
    \/ RunValidateDiagramComprehensive

SpecComplexity == Init /\ [][NextComplexity]_vars

HasWarning(result, code) ==
    \E i \in 1..Len(result.warnings) : result.warnings[i].code = code

\* 0.6 x min(n / 20, 1) + 0.4 x min((e / n) / 3, 1) exceeds 0.8, for n > 0;
\* both sides multiplied by 300 n
ClaimedScoreExceeds(n, e) ==
    /\ n > 0
    /\ 9 * n * (IF n < 20 THEN n ELSE 20) + 40 * (IF e < 3 * n THEN e ELSE 3 * n)
           > 240 * n

\* C19: the complexity score of a diagram with n > 0 nodes and e edges is
\* 0.6 x min(n/20, 1) + 0.4 x min((e/n)/3, 1), and 0 for n = 0; validation
\* carries a HIGH_COMPLEXITY warning exactly when that score exceeds 0.8; a
\* diagram of 30 nodes with more than 3 edges per node gets the warning and
\* is still valid.
C19_HighComplexityWarning ==
    HelperReturned("validate_diagram_comprehensive") =>
        LET n == Len(helper_call[1].args.nodes)
            e == Len(helper_call[1].args.edges)
            result == helper_result[1]
            score == result.metadata.complexity_score
        IN  /\ n = 0 => score.num = 0
            /\ n > 0 => score.num * 300 * n
                           = score.den * (9 * n * (IF n < 20 THEN n ELSE 20)
                                          + 40 * (IF e < 3 * n THEN e ELSE 3 * n))
            /\ HasWarning(result, "HIGH_COMPLEXITY") <=> ClaimedScoreExceeds(n, e)
            /\ (n = 30 /\ e > 3 * n)
                   => HasWarning(result, "HIGH_COMPLEXITY") /\ result.is_valid

\* a diagram of 30 nodes and 91 edges was validated: warned, and valid
C19_Witness ==
    /\ HelperReturned("validate_diagram_comprehensive")
    /\ Len(helper_call[1].args.nodes) = 30
    /\ Len(helper_call[1].args.edges) = 91
    /\ HasWarning(helper_result[1], "HIGH_COMPLEXITY")
    /\ helper_result[1].is_valid

-----------------------------------------------------------------------------
(* The pipeline: generate_diagram, then generate_specification on the      *)
(* diagram it returned                                                     *)

\* the caller passes the returned diagram to generator.generate_specification
CallSpecificationOnOutcome(include_tests, test_language) ==
    /\ outcome.kind = "returned"
    /\ CallGenerateSpecification(outcome.diagram, include_tests, test_language)

NextPipeline ==
    \/ \E c \in Contents : CallOnNewEngine(c)
    \/ RunGenerateDiagram
    \/ \E include_tests \in BOOLEAN, test_language \in {"python", "typescript"} :
           CallSpecificationOnOutcome(include_tests, test_language)
    \/ RunGenerateSpecification

SpecPipeline == Init /\ [][NextPipeline]_vars

-----------------------------------------------------------------------------
(* Node ids of one generate_diagram call                                   *)

\* the names one call resolves: its entities' names and its relationships' endpoints
ResolvedNames(c) ==
    {c.entities[i].name : i \in 1..Len(c.entities)}
    \cup {c.relationships[j].source : j \in 1..Len(c.relationships)}
    \cup {c.relationships[j].target : j \in 1..Len(c.relationships)}

\* the call went past input validation, so it resolved its names
NamesResolved ==
    /\ Finished
    /\ ~(outcome.kind = "DiagramGenerationError" /\ outcome.stage = "input_validation")

\* C23: within one generate_diagram call every occurrence of a name, as an
\* entity or as a relationship endpoint, resolves to the same node id, two
\* different names never resolve to the same id, and every id consists of
\* letters, digits and underscores only.
C23_NodeIdsConsistent ==
    NamesResolved =>
        /\ DOMAIN node_id_map = ResolvedNames(content[1])
        /\ \A a, b \in DOMAIN node_id_map :
               node_id_map[a] = node_id_map[b] => a = b
        /\ \A a \in DOMAIN node_id_map :
               Range(node_id_map[a]) \subseteq Letters \cup Digits \cup {"_"}
        /\ outcome.kind = "returned" =>
               LET d == outcome.diagram[1]
                   c == content[1]
               IN  /\ Len(d.nodes) = Len(c.entities)
                   /\ Len(d.edges) = Len(c.relationships)
                   /\ IdsOf(d.nodes) =
                          {node_id_map[c.entities[i].name] : i \in 1..Len(c.entities)}
                   /\ \A i \in 1..Len(c.entities) : \E k \in 1..Len(d.nodes) :
                          /\ d.nodes[k].id = node_id_map[c.entities[i].name]
                          /\ d.nodes[k].label = CleanLabel(c.entities[i].name)
                   /\ \A j \in 1..Len(d.edges) :
                          /\ d.edges[j].source_id = node_id_map[c.relationships[j].source]
                          /\ d.edges[j].target_id = node_id_map[c.relationships[j].target]

\* a diagram came back for two entities whose names clean to the same text,
\* one of them also the source of a relationship
C23_Witness ==
    /\ outcome.kind = "returned"
    /\ Len(content[1].entities) = 2
    /\ content[1].entities[1].name # content[1].entities[2].name
    /\ CleanId(content[1].entities[1].name) = CleanId(content[1].entities[2].name)
    /\ Len(content[1].relationships) = 1
    /\ LET d == outcome.diagram[1]
       IN  /\ d.edges[1].source_id \in IdsOf(d.nodes)
           /\ d.edges[1].target_id \in IdsOf(d.nodes)
           /\ d.edges[1].source_id # d.edges[1].target_id

-----------------------------------------------------------------------------
(* Survivors of relationship deduplication                                 *)

\* r and s are duplicates of each other: the same (source, target, type), or,
\* for a symmetric type, the same type and the same two entities
SameGroup(r, s) ==
    /\ r.type = s.type
    /\ \/ r.source = s.source /\ r.target = s.target
       \/ /\ r.type \in symmetric_types
          /\ r.source = s.target
          /\ r.target = s.source

\* C24: after relationship deduplication at most one relationship survives
\* per (source, target, type) triple and, for the symmetric types, per
\* unordered pair and type; the survivor is one of the relationships passed in
\* and carries the highest confidence among its duplicates.
C24_OneSurvivorWithHighestConfidence ==
    HelperReturned("_deduplicate_relationships") =>
        LET relationships == helper_call[1].args
            result == helper_result[1]
        IN  /\ \A i, j \in 1..Len(result) :
                   SameGroup(result[i], result[j]) => i = j
            /\ \A i \in 1..Len(result) :
                   /\ result[i] \in Range(relationships)
                   /\ \A k \in 1..Len(relationships) :
                          SameGroup(relationships[k], result[i])
                              => relationships[k].confidence <= result[i].confidence

\* three duplicates of a symmetric type in both directions went in, the
\* weakest first, and one relationship came out
C24_Witness ==
    /\ HelperReturned("_deduplicate_relationships")
    /\ LET relationships == helper_call[1].args
           result == helper_result[1]
       IN  /\ Len(relationships) = 3
           /\ \A k \in 1..3 : relationships[k].type = "associated_with"
           /\ relationships[1].source = relationships[2].target
           /\ relationships[1].confidence < relationships[2].confidence
           /\ relationships[2].confidence < relationships[3].confidence
           /\ Len(result) = 1
           /\ result[1] = relationships[3]

-----------------------------------------------------------------------------
(* The two validators on one diagram                                       *)

MaxValidatedNodes == 2

MaxValidatedEdges == 1

\* nodes a caller can put into a DiagramData: labelled and positioned,
\* labelled without a position, with a blank label, with an empty one
ValidatedNodePool ==
    {Node(<<"N", "_", "1">>, <<"N">>, "rect", "process", <<>>, Some(Position(margin, margin))),
     Node(<<"N", "_", "2">>, <<"M">>, "rect", "data", <<>>, None),
     Node(<<"N", "_", "3">>, <<" ">>, "rect", "actor", <<>>, Some(Position(margin, margin))),
     Node(<<"N", "_", "4">>, <<>>, "rect", "process", <<>>, None)}

\* edges between the first two nodes and to an id no node has
ValidatedEdgePool ==
    {Edge(<<"N", "_", "1">>, <<"N", "_", "2">>, <<>>, "-->", "flows_to"),
     Edge(<<"N", "_", "1">>, <<"Z", "_", "9">>, <<>>, "-->", "creates")}

\* the mermaid_syntax a caller can put in besides the generated one: empty,
\* blank, an unknown declaration, a declaration after an empty first line
OtherSyntaxes ==
    {<<>>, <<<<" ">>>>, <<<<"bogus", " ", "TD">>>>, <<<<>>, <<"flowchart", " ", "TD">>>>}

\* DiagramData values as a caller can construct them
ValidatedDiagrams ==
    {DiagramData(t, x, n, e, GenerateLayoutConfig(t), <<>>) :
        t \in {"flowchart", "erd"},
        n \in SeqsUpTo(ValidatedNodePool, MaxValidatedNodes),
        e \in SeqsUpTo(ValidatedEdgePool, MaxValidatedEdges),
        x \in OtherSyntaxes \cup {<<<<"flowchart", " ", "TD">>>>, <<<<"erDiagram">>>>}}

\* a caller passes a diagram to engine.validate_diagram
CallValidateDiagram(diagram_data) ==
    /\ helper_call = None
    /\ helper_call' = HelperCall("validate_diagram", diagram_data)
    /\ helper_result' = None
    /\ UNCHANGED <<engineVars, docVars, parseVars, helper_frame>>

\* validate_diagram runs to its return; the result kept is its is_valid entry
RunValidateDiagram ==
    /\ helper_call # None
    /\ helper_call[1].name = "validate_diagram"
    /\ helper_result = None
    /\ helper_result' = Some(ValidateDiagram(helper_call[1].args))
    /\ UNCHANGED <<engineVars, docVars, parseVars, helper_call, helper_frame>>

NextValidators ==
    \/ \E d \in ValidatedDiagrams : CallValidateDiagram(d)
    \/ RunValidateDiagram

SpecValidators == Init /\ [][NextValidators]_vars

\* C27: for every DiagramData the legacy validate_diagram reports is_valid
\* exactly when validate_diagram_comprehensive does.
C27_ValidatorsAgree ==
    HelperReturned("validate_diagram") =>
        (helper_result[1] <=> ValidateDiagramComprehensive(helper_call[1].args).is_valid)

\* the two agree on a diagram whose only defect is a blank label, which has
\* warnings besides: an unpositioned node and a node without connections
C27_Witness ==
    /\ HelperReturned("validate_diagram")
    /\ ~helper_result[1]
    /\ LET d == helper_call[1].args
           r == ValidateDiagramComprehensive(d)
       IN  /\ Len(d.nodes) = 2
           /\ Len(r.issues) = 1
           /\ r.issues[1].code = "EMPTY_LABELS"
           /\ Len(r.warnings) > 1

-----------------------------------------------------------------------------
(* Ids of the acceptance criteria                                          *)

\* a criterion _generate_edge_criteria made: it names two related entities
IsEdgeCriterion(criterion) == Len(criterion.related_entities) = 2

\* C30: the acceptance criteria of one generated specification have
\* pairwise distinct ids, the ids are "1" .. "K" in the order of generation,
\* and all node criteria come before the edge criteria; an edge that is
\* skipped because an endpoint does not resolve leaves no gap.
C30_CriteriaIdsConsecutive ==
    specification.kind = "returned" =>
        LET criteria == specification.generated[1].acceptance_criteria
        IN  /\ \A i \in 1..Len(criteria) : criteria[i].id = IntToStr(i)
            /\ \A i, j \in 1..Len(criteria) :
                   criteria[i].id = criteria[j].id => i = j
            /\ \A i, j \in 1..Len(criteria) :
                   (IsEdgeCriterion(criteria[i]) /\ ~IsEdgeCriterion(criteria[j])) => j < i

\* a specification was returned for a diagram whose first edge is skipped and
\* whose second edge has a criterion, the last of five
C30_Witness ==
    /\ specification.kind = "returned"
    /\ LET d == spec_request[1].diagram_data[1]
           criteria == specification.generated[1].acceptance_criteria
       IN  /\ Len(d.edges) = 2
           /\ 1 \notin KnownEdges(d)
           /\ 2 \in KnownEdges(d)
           /\ Len(criteria) = 5
           /\ IsEdgeCriterion(criteria[5])
           /\ criteria[5].id = <<"5">>

-----------------------------------------------------------------------------
(* One _apply_hierarchical_layout call, its level assignment step by step  *)

MaxLayoutEdges == 2

\* the nodes a layout is given: none, or the first one, two or three of these
LayoutNodes ==
    <<Node(<<"N", "_", "1">>, <<"N", "1">>, "rect", "process", <<>>, None),
      Node(<<"N", "_", "2">>, <<"N", "2">>, "rect", "data", <<>>, None),
      Node(<<"N", "_", "3">>, <<"N", "3">>, "rect", "actor", <<>>, None)>>

\* edges between them, self-loops included, edges to an id that no node has
\* and an edge from it
LayoutEdgePool ==
    {Edge(LayoutNodes[i].id, t, <<>>, "-->", "uses") :
        i \in 1..Len(LayoutNodes),
        t \in NodeIds(LayoutNodes) \cup {<<"Z", "_", "9">>}}
    \cup {Edge(<<"Z", "_", "9">>, LayoutNodes[1].id, <<>>, "-->", "uses")}

\* _apply_auto_layout passes the nodes and edges to _apply_hierarchical_layout
CallApplyHierarchicalLayout(nodes, edges) ==
    /\ helper_call = None
    /\ helper_call' = HelperCall("_apply_hierarchical_layout",
                                 [nodes |-> nodes, edges |-> edges])
    /\ helper_result' = None
    /\ UNCHANGED <<engineVars, docVars, parseVars, helper_frame>>

LayoutRunning ==
    /\ helper_call # None
    /\ helper_call[1].name = "_apply_hierarchical_layout"
    /\ helper_result = None

\* the call up to the loop of _assign_levels_bfs: the roots are found and
\* queued, or nodes[0] raises on an empty list
BeginAssignLevelsBfs ==
    /\ LayoutRunning
    /\ helper_frame = None
    /\ LET nodes == helper_call[1].args.nodes
           edges == helper_call[1].args.edges
       IN  IF Len(nodes) = 0
           THEN /\ helper_result' = Some(LayoutRaises("IndexError"))
                /\ helper_frame' = helper_frame
           ELSE /\ helper_frame' = Some(BfsEntry(RootNodesOrFirst(nodes, edges)))
                /\ helper_result' = helper_result
    /\ UNCHANGED <<engineVars, docVars, parseVars, helper_call>>

\* one iteration of the while loop
IterateAssignLevelsBfs ==
    /\ LayoutRunning
    /\ helper_frame # None
    /\ Len(helper_frame[1].queue) > 0
    /\ helper_frame' =
           Some(BfsIteration(helper_frame[1],
                    BuildAdjacencyList(helper_call[1].args.nodes, helper_call[1].args.edges)))
    /\ UNCHANGED <<engineVars, docVars, parseVars, helper_call, helper_result>>

\* the queue is empty: the nodes are positioned by level and returned
FinishApplyHierarchicalLayout ==
    /\ LayoutRunning
    /\ helper_frame # None
    /\ Len(helper_frame[1].queue) = 0
    /\ helper_result' =
           Some(LayoutOk(PlaceHierarchical(helper_call[1].args.nodes, helper_frame[1].levels)))
    /\ UNCHANGED <<engineVars, docVars, parseVars, helper_call, helper_frame>>

RunApplyHierarchicalLayout ==
    \/ BeginAssignLevelsBfs
    \/ IterateAssignLevelsBfs
    \/ FinishApplyHierarchicalLayout

NextLayout ==
    \/ \E n \in 0..Len(LayoutNodes), edges \in SeqsUpTo(LayoutEdgePool, MaxLayoutEdges) :
           CallApplyHierarchicalLayout(SubSeq(LayoutNodes, 1, n), edges)
    \/ RunApplyHierarchicalLayout

SpecLayout == Init /\ [][NextLayout]_vars

\* a call that has started goes on running
SpecLayoutLive == SpecLayout /\ WF_vars(RunApplyHierarchicalLayout)

\* the layout returned positioned nodes
LayoutReturned ==
    /\ HelperReturned("_apply_hierarchical_layout")
    /\ helper_result[1].ok

\* ids of the nodes with no incoming edge, of the first node when there are none
RootIds(nodes, edges) ==
    LET free == {id \in NodeIds(nodes) : \A k \in 1..Len(edges) : edges[k].target_id # id}
    IN  IF free = {} THEN {nodes[1].id} ELSE free

\* ids of the nodes at most k edges away from a root
WithinDistance(nodes, edges, k) ==
    LET Near[j \in 0..k] ==
            IF j = 0 THEN RootIds(nodes, edges)
            ELSE Near[j - 1]
                 \cup {id \in NodeIds(nodes) :
                          \E e \in 1..Len(edges) :
                              edges[e].source_id \in Near[j - 1] /\ edges[e].target_id = id}
    IN  Near[k]

Reachable(nodes, edges) == WithinDistance(nodes, edges, Len(nodes))

\* the shortest edge distance of a reachable node from the nearest root
Distance(nodes, edges, id) ==
    CHOOSE k \in 0..Len(nodes) :
        /\ id \in WithinDistance(nodes, edges, k)
        /\ \A j \in 0..(k - 1) : id \notin WithinDistance(nodes, edges, j)

\* the y coordinate the layout gave the node with that id
PlacedY(placed, id) ==
    LET i == CHOOSE i \in 1..Len(placed) : placed[i].id = id
    IN  placed[i].position[1].y

\* levels and rows of a returned layout: every node reachable from a root
\* lies its shortest distance from the nearest root, in rows, below the top
LevelsAreDistances ==
    LET nodes == helper_call[1].args.nodes
        edges == helper_call[1].args.edges
        placed == helper_result[1].nodes
    IN  /\ Len(placed) = Len(nodes)
        /\ \A i \in 1..Len(nodes) :
               /\ placed[i].id = nodes[i].id
               /\ nodes[i].id \in Reachable(nodes, edges)
                      => placed[i].position[1].y
                             = margin + Distance(nodes, edges, nodes[i].id) * vertical_spacing

\* C25 (as stated): in the hierarchical layout the roots are the nodes with
\* no incoming edge (the first node when there are none), every node
\* reachable from a root gets as its level its shortest edge distance from
\* the nearest root, y grows by one vertical spacing per level, and a root is
\* placed strictly above every node it points to.
C25_RootAboveEveryTarget ==
    LayoutReturned =>
        LET nodes == helper_call[1].args.nodes
            edges == helper_call[1].args.edges
            placed == helper_result[1].nodes
        IN  /\ LevelsAreDistances
            /\ \A k \in 1..Len(edges) :
                   (/\ edges[k].source_id \in RootIds(nodes, edges)
                    /\ edges[k].target_id \in NodeIds(nodes))
                       => PlacedY(placed, edges[k].source_id)
                              < PlacedY(placed, edges[k].target_id)

\* C25 (amended): the same, with a root placed strictly above every other
\* node it points to; a root that points to itself, which only the first node
\* taken as root for want of one can do, is on its own row.
C25_RootAboveEveryOtherTarget ==
    LayoutReturned =>
        LET nodes == helper_call[1].args.nodes
            edges == helper_call[1].args.edges
            placed == helper_result[1].nodes
        IN  /\ LevelsAreDistances
            /\ \A k \in 1..Len(edges) :
                   (/\ edges[k].source_id \in RootIds(nodes, edges)
                    /\ edges[k].target_id \in NodeIds(nodes)
                    /\ edges[k].target_id # edges[k].source_id)
                       => PlacedY(placed, edges[k].source_id)
                              < PlacedY(placed, edges[k].target_id)

\* a chain of three nodes was laid out on three rows
C25_Witness ==
    /\ LayoutReturned
    /\ Len(helper_call[1].args.nodes) = 3
    /\ Len(helper_call[1].args.edges) = 2
    /\ \A i \in 1..3 :
           helper_result[1].nodes[i].position[1].y = margin + (i - 1) * vertical_spacing

-----------------------------------------------------------------------------
(* Termination of the level assignment                                     *)

\* the layout has returned or raised
LayoutFinished == HelperReturned("_apply_hierarchical_layout")

\* every node has one position, on a row that is a whole number of vertical
\* spacings below the top, and every node unreachable from all roots is on
\* the top row, that of level 0
OneLevelPerNode ==
    LET nodes == helper_call[1].args.nodes
        edges == helper_call[1].args.edges
        placed == helper_result[1].nodes
        levels == helper_frame[1].levels
    IN  /\ Len(placed) = Len(nodes)
        /\ \A i \in 1..Len(nodes) :
               /\ placed[i].id = nodes[i].id
               /\ Len(placed[i].position) = 1
               /\ \E level \in 0..(Len(nodes) - 1) :
                      /\ placed[i].position[1].y = margin + level * vertical_spacing
                      /\ nodes[i].id \in DOMAIN levels => levels[nodes[i].id] = level
               /\ nodes[i].id \notin Reachable(nodes, edges)
                      => /\ nodes[i].id \notin DOMAIN levels
                         /\ placed[i].position[1].y = margin

\* C29: breadth-first level assignment terminates on every finite diagram,
\* also with cycles, self-loops and edges whose target is not a node (every
\* call that starts comes to its end), and gives each node exactly one level,
\* every node unreachable from all roots being placed at level 0.
C29_LevelAssignmentTerminates ==
    /\ [](LayoutReturned => OneLevelPerNode)
    /\ (helper_call # None) ~> LayoutFinished

\* a layout returned for three nodes of which the last two form a cycle that
\* no root reaches: all three are on the top row
C29_Witness ==
    /\ LayoutReturned
    /\ Len(helper_call[1].args.nodes) = 3
    /\ Len(helper_call[1].args.edges) = 2
    /\ helper_call[1].args.edges[1].source_id = helper_call[1].args.edges[2].target_id
    /\ helper_call[1].args.edges[2].source_id = helper_call[1].args.edges[1].target_id
    /\ helper_call[1].args.edges[1].source_id # helper_call[1].args.edges[1].target_id
    /\ Cardinality(Reachable(helper_call[1].args.nodes, helper_call[1].args.edges)) = 1
    /\ \A i \in 1..3 : helper_result[1].nodes[i].position[1].y = margin

-----------------------------------------------------------------------------
(* Positions of the nodes of a returned diagram                            *)

\* C26: in every DiagramData returned by generate_diagram for a flowchart,
\* class, process or sequence diagram no two nodes have exactly the same
\* position.
C26_DistinctPositions ==
    (/\ outcome.kind = "returned"
     /\ outcome.diagram[1].diagram_type \in {"flowchart", "class", "process", "sequence"})
        => LET nodes == outcome.diagram[1].nodes
           IN  \A i, j \in 1..Len(nodes) :
                   nodes[i].position = nodes[j].position => i = j

-----------------------------------------------------------------------------
(* The suggested type and the suggestions of one parse_text result         *)

\* C28: in every result of parse_text suggested_diagram_type is the first
\* entry of diagram_type_suggestions, also when several types tie for the
\* highest score and also for blank input.
C28_SuggestedIsFirstSuggestion ==
    parsed.kind = "returned" =>
        /\ Len(parsed.diagram_type_suggestions) = Len(score_order)
        /\ parsed.content[1].suggested_diagram_type = parsed.diagram_type_suggestions[1][1]
        /\ \A p \in 2..Len(score_order) :
               parsed.diagram_type_suggestions[p][2] <= parsed.diagram_type_suggestions[1][2]

\* a non-blank text was parsed and three types tie for the highest score,
\* flowchart among them; the suggestion is the first of them, sequence
C28_Witness ==
    /\ parsed.kind = "returned"
    /\ ~IsBlankArgument(text)
    /\ parsed.content[1].suggested_diagram_type = "sequence"
    /\ parsed.diagram_type_suggestions[2][1] = "process"
    /\ parsed.diagram_type_suggestions[3][1] = "flowchart"
    /\ parsed.diagram_type_suggestions[3][2] = parsed.diagram_type_suggestions[1][2]
    /\ parsed.diagram_type_suggestions[4][2] < parsed.diagram_type_suggestions[1][2]


------------------------------------------------------------------------------
(* _identify_workflows and the end-to-end test file, called on their own    *)

CallIdentifyWorkflows(d) ==
    /\ helper_call = None
    /\ helper_call' = HelperCall("_identify_workflows", d)
    /\ helper_result' = None
    /\ UNCHANGED <<engineVars, docVars, parseVars, helper_frame>>

RunIdentifyWorkflows ==
    /\ helper_call # None
    /\ helper_call[1].name = "_identify_workflows"
    /\ helper_result = None
    /\ helper_result' = Some(IdentifyWorkflows(helper_call[1].args))
    /\ UNCHANGED <<engineVars, docVars, parseVars, helper_call, helper_frame>>

\* _generate_e2e_test_file(diagram_data, acceptance_criteria, PYTHON)
CallGenerateE2eTestFile(d) ==
    /\ helper_call = None
    /\ helper_call' = HelperCall("_generate_e2e_test_file", d)
    /\ helper_result' = None
    /\ UNCHANGED <<engineVars, docVars, parseVars, helper_frame>>

RunGenerateE2eTestFile ==
    /\ helper_call # None
    /\ helper_call[1].name = "_generate_e2e_test_file"
    /\ helper_result = None
    /\ helper_result' = Some(GenerateE2eTestFile(helper_call[1].args, "python"))
    /\ UNCHANGED <<engineVars, docVars, parseVars, helper_call, helper_frame>>

\* diagrams of up to three nodes with edges among them, to themselves and to
\* and from an id that no node has
WorkflowDiagrams ==
    {DiagramData("flowchart", <<>>, SubSeq(LayoutNodes, 1, n), edges, <<>>, <<>>) :
        n \in 0..Len(LayoutNodes), edges \in SeqsUpTo(LayoutEdgePool, MaxLayoutEdges)}

NextWorkflows ==
    \/ \E d \in WorkflowDiagrams : CallIdentifyWorkflows(d)
    \/ RunIdentifyWorkflows
    \/ \E d \in WorkflowDiagrams : CallGenerateE2eTestFile(d)
    \/ RunGenerateE2eTestFile

SpecWorkflows == Init /\ [][NextWorkflows]_vars

\* the first edge out of the first node that leads to another node of the
\* diagram, if there is one
FirstStep(d) ==
    LET Leads(edge) ==
            /\ edge.source_id = d.nodes[1].id
            /\ edge.target_id # d.nodes[1].id
            /\ FindNodeById(d.nodes, edge.target_id) # None
    IN  SelectSeq(d.edges, Leads)

\* C22: workflow identification follows edges.  The first node of a diagram
\* starts a trace with nothing visited; when it has an outgoing edge to
\* another node of the diagram, the first workflow returned starts with that
\* node followed by the target of the first such edge; at most 3 workflows
\* are returned; and the end-to-end test file of such a diagram has at least
\* one test case.
C22_WorkflowFollowsEdges ==
    /\ (helper_call # None /\ helper_result # None
        /\ helper_call[1].name = "_identify_workflows")
       => LET d == helper_call[1].args
              workflows == helper_result[1]
          IN  /\ Len(workflows) <= MaxWorkflows
              /\ (Len(d.nodes) > 0 /\ Len(FirstStep(d)) > 0)
                 => /\ Len(workflows) > 0
                    /\ Len(workflows[1]) >= 2
                    /\ workflows[1][1] = d.nodes[1]
                    /\ workflows[1][2] = FindNodeById(d.nodes, FirstStep(d)[1].target_id)[1]
    /\ (helper_call # None /\ helper_result # None
        /\ helper_call[1].name = "_generate_e2e_test_file")
       => LET d == helper_call[1].args
          IN  (Len(d.nodes) > 0 /\ Len(FirstStep(d)) > 0)
              => Len(helper_result[1].test_cases) > 0


------------------------------------------------------------------------------
(* text_parser.py: identify_relationships, and parse_text followed by       *)
(* generate_diagram                                                          *)

\* a dict as the list of its (key, value) pairs in insertion order:
\* d[key] = value
DictPut(d, key, value) ==
    IF \E i \in 1..Len(d) : d[i][1] = key
    THEN LET at == CHOOSE i \in 1..Len(d) : d[i][1] = key
         IN  [d EXCEPT ![at] = <<key, value>>]
    ELSE Append(d, <<key, value>>)

\* d.get(key), as an Optional
DictGet(d, key) ==
    IF \E i \in 1..Len(d) : d[i][1] = key
    THEN Some(d[CHOOSE i \in 1..Len(d) : d[i][1] = key][2])
    ELSE None

RECURSIVE SplitWords(_)
\* s.split(): the maximal runs of characters that are not whitespace
SplitWords(s) ==
    LET rest == LStrip(s)
        IsBreak(i) == rest[i] \in Whitespace
        word_end == IF \E i \in 1..Len(rest) : IsBreak(i)
                    THEN (CHOOSE i \in 1..Len(rest) :
                              IsBreak(i) /\ \A j \in 1..(i - 1) : ~IsBreak(j)) - 1
                    ELSE Len(rest)
    IN  IF Len(rest) = 0 THEN <<>>
        ELSE <<SubSeq(rest, 1, word_end)>> \o SplitWords(SubSeq(rest, word_end + 1, Len(rest)))

RECURSIVE JoinWords(_)
\* " ".join(words)
JoinWords(words) ==
    IF Len(words) = 0 THEN <<>>
    ELSE IF Len(words) = 1 THEN words[1]
    ELSE words[1] \o <<" ">> \o JoinWords(Tail(words))

variation_stop_words ==
    {<<"t", "h", "e">>, <<"a">>, <<"a", "n">>, <<"o", "f">>, <<"i", "n">>, <<"o", "n">>,
     <<"a", "t">>, <<"t", "o">>, <<"f", "o", "r">>, <<"w", "i", "t", "h">>}

PluralMinLen == 3

\* the body of the loop of _create_entity_variations for one entity
VariationsAfter(variations, entity) ==
    LET name == entity.name
        name_lower == Lower(name)
        exact == DictPut(variations, name_lower, name)
        plural == IF name_lower[Len(name_lower)] = "s" /\ Len(name_lower) > PluralMinLen
                  THEN DictPut(exact, SubSeq(name_lower, 1, Len(name_lower) - 1), name)
                  ELSE DictPut(exact, name_lower \o <<"s">>, name)
        words == SplitWords(name_lower)
        NotStop(w) == w \notin variation_stop_words
        filtered_words == SelectSeq(words, NotStop)
    IN  IF Len(words) > 1 /\ Len(filtered_words) > 0
        THEN DictPut(DictPut(plural, JoinWords(filtered_words), name),
                     filtered_words[Len(filtered_words)], name)
        ELSE plural

\* _create_entity_variations
CreateEntityVariations(entities) ==
    LET After[i \in 0..Len(entities)] ==
            IF i = 0 THEN <<>> ELSE VariationsAfter(After[i - 1], entities[i])
    IN  After[Len(entities)]

FuzzyTolerance == 2

\* _fuzzy_match_entity: the name of the first variation that contains the
\* text or is contained in it and differs from it in length by at most 2
FuzzyMatchEntity(t, entity_variations) ==
    LET Matches(i) ==
            /\ Contains(entity_variations[i][1], t) \/ Contains(t, entity_variations[i][1])
            /\ Abs(Len(t) - Len(entity_variations[i][1])) <= FuzzyTolerance
    IN  IF \E i \in 1..Len(entity_variations) : Matches(i)
        THEN Some(entity_variations[CHOOSE i \in 1..Len(entity_variations) :
                      Matches(i) /\ \A j \in 1..(i - 1) : ~Matches(j)][2])
        ELSE None

\* rel_type.replace("_", " ").title()
TitleLabel(rel_type) ==
    CASE rel_type = "uses"            -> <<"U", "s", "e", "s">>
      [] rel_type = "follows"         -> <<"F", "o", "l", "l", "o", "w", "s">>
      [] rel_type = "sends_to"        -> <<"S", "e", "n", "d", "s", " ", "T", "o">>
      [] rel_type = "sent_to"         -> <<"S", "e", "n", "t", " ", "T", "o">>
      [] rel_type = "associated_with" ->
             <<"A", "s", "s", "o", "c", "i", "a", "t", "e", "d", " ", "W", "i", "t", "h">>

\* a Relationship as the parser builds it, label included
LabelledRelationship(source, target, type, label, confidence) ==
    [source |-> source, target |-> target, type |-> type, label |-> label,
     confidence |-> confidence]

\* the entity a matched text stands for: the variation it equals, else the
\* fuzzy match
MatchedEntity(key, entity_variations) ==
    IF DictGet(entity_variations, key) # None
    THEN DictGet(entity_variations, key)
    ELSE FuzzyMatchEntity(key, entity_variations)

\* a _create_relationship_if_valid that keeps the matched texts as endpoints
CreateRelationshipIfValid_MatchedText(source, target, rel_type, entity_variations, confidence) ==
    LET source_entity == MatchedEntity(Lower(source), entity_variations)
        target_entity == MatchedEntity(Lower(target), entity_variations)
    IN  IF source_entity # None /\ target_entity # None /\ source_entity # target_entity
        THEN Some(LabelledRelationship(source, target, rel_type,
                                       TitleLabel(rel_type), confidence))
        ELSE None

\* _create_relationship_if_valid: the Relationship, or None
CreateRelationshipIfValid(source, target, rel_type, entity_variations, confidence) ==
    LET source_entity == MatchedEntity(Lower(source), entity_variations)
        target_entity == MatchedEntity(Lower(target), entity_variations)
    IN  IF source_entity # None /\ target_entity # None /\ source_entity # target_entity
        THEN Some(LabelledRelationship(source_entity[1], target_entity[1], rel_type,
                                       TitleLabel(rel_type), confidence))
        ELSE None

DirectConfidence == 70

ThreeGroupConfidence == 80

ContextualConfidence == 60

DependencyConfidence == 60

CooccurrenceConfidence == 30

\* the relationships of one match of a direct pattern: one for two groups,
\* two for the three groups of "A sends B to C"
DirectRelationshipsOf(match, entity_variations) ==
    LET groups == match.groups
    IN  IF Len(groups) = 2
        THEN CreateRelationshipIfValid(Strip(groups[1]), Strip(groups[2]), match.rel_type,
                                       entity_variations, DirectConfidence)
        ELSE IF Len(groups) = 3
        THEN CreateRelationshipIfValid(Strip(groups[1]), Strip(groups[2]), match.rel_type,
                                       entity_variations, ThreeGroupConfidence)
             \o CreateRelationshipIfValid(Strip(groups[2]), Strip(groups[3]), "sent_to",
                                          entity_variations, DirectConfidence)
        ELSE <<>>

\* _extract_direct_relationships over the matches of relationship_patterns
ExtractDirectRelationships(matches, entity_variations) ==
    Flatten([i \in 1..Len(matches) |-> DirectRelationshipsOf(matches[i], entity_variations)])

\* _extract_contextual_relationships over the matches of contextual_patterns
ExtractContextualRelationships(matches, entity_variations) ==
    Flatten([i \in 1..Len(matches) |->
                CreateRelationshipIfValid(Strip(matches[i].groups[1]), Strip(matches[i].groups[2]),
                                          matches[i].rel_type, entity_variations,
                                          ContextualConfidence)])

\* entity_spans[key].name: the last entity with that lower-cased name
EntitySpanName(entities, key) ==
    LET Named(i) == Lower(entities[i].name) = key
    IN  IF \E i \in 1..Len(entities) : Named(i)
        THEN Some(entities[CHOOSE i \in 1..Len(entities) :
                               Named(i) /\ \A j \in (i + 1)..Len(entities) : ~Named(j)].name)
        ELSE None

\* _extract_dependency_relationships over the subject-verb-object triples of
\* the parse whose verb maps to a relationship type
ExtractDependencyRelationships(triples, entities) ==
    LET OfTriple(triple) ==
            LET source == EntitySpanName(entities, Lower(triple.subject))
                target == EntitySpanName(entities, Lower(triple.obj))
            IN  IF source # None /\ target # None
                THEN <<LabelledRelationship(source[1], target[1], triple.rel_type,
                                            TitleLabel(triple.rel_type), DependencyConfidence)>>
                ELSE <<>>
    IN  Flatten([i \in 1..Len(triples) |-> OfTriple(triples[i])])

\* the pairs of one sentence: every entity in it with every later one
CooccurrencesIn(sent_text, entities) ==
    LET InSent(entity) == Contains(sent_text, Lower(entity.name))
        entities_in_sent == SelectSeq(entities, InSent)
        n == Len(entities_in_sent)
    IN  IF n >= 2
        THEN Flatten([i \in 1..n |->
                 [k \in 1..(n - i) |->
                     LabelledRelationship(entities_in_sent[i].name, entities_in_sent[i + k].name,
                                          "associated_with", TitleLabel("associated_with"),
                                          CooccurrenceConfidence)]])
        ELSE <<>>

\* _extract_cooccurrence_relationships over the lower-cased sentences
ExtractCooccurrenceRelationships(sentences, entities) ==
    Flatten([i \in 1..Len(sentences) |-> CooccurrencesIn(sentences[i], entities)])

\* what the regular expressions and spaCy find in a text
Cues(direct, contextual, triples, sentences) ==
    [direct |-> direct, contextual |-> contextual, triples |-> triples,
     sentences |-> sentences]

\* identify_relationships
IdentifyRelationships(cues, entities) ==
    LET entity_variations == CreateEntityVariations(entities)
    IN  DeduplicateRelationships(
            ExtractDirectRelationships(cues.direct, entity_variations)
            \o ExtractContextualRelationships(cues.contextual, entity_variations)
            \o ExtractDependencyRelationships(cues.triples, entities)
            \o ExtractCooccurrenceRelationships(cues.sentences, entities))


------------------------------------------------------------------------------
(* parse_text step by step, and generate_diagram on what it returns        *)

MaxCues == 2

\* texts given to parse_text: none, a blank one and one with a word
PipelineTexts == {None, Some(<<" ">>), Some(<<"x">>)}

\* the Doc of a text: named entities and noun phrases, blank ones included
PipelineDocs ==
    {[ents |-> e, noun_chunks |-> c] :
        e \in SeqsUpTo({[text |-> <<"A">>, label |-> "PERSON"],
                        [text |-> <<" ">>, label |-> "PERSON"]}, MaxCues),
        c \in SeqsUpTo({[text |-> <<"b">>, stop_non_alpha |-> FALSE],
                        [text |-> <<"a", " ", "b", " ">>, stop_non_alpha |-> FALSE]}, MaxCues)}

PatternMatch(groups, rel_type) == [groups |-> groups, rel_type |-> rel_type]

\* matches of the direct patterns: the groups name an entity exactly, by a
\* variation, nearly, or not at all
DirectMatchPool ==
    {PatternMatch(<<<<"A">>, <<"b">>>>, "uses"),
     PatternMatch(<<<<"b", "s">>, <<"A">>>>, "uses"),
     PatternMatch(<<<<"a", "b">>, <<"b">>>>, "uses"),
     PatternMatch(<<<<"A">>, <<"z", "z", "z">>>>, "uses"),
     PatternMatch(<<<<"A">>, <<"b">>, <<"A">>>>, "sends_to")}

ContextualMatchPool ==
    {PatternMatch(<<<<"b">>, <<"A">>>>, "follows"),
     PatternMatch(<<<<"A">>, <<"A">>>>, "follows")}

\* subject, object and mapped verb of a sentence; the object may be the subject
TriplePool ==
    {[subject |-> <<"A">>, obj |-> <<"b">>, rel_type |-> "uses"],
     [subject |-> <<"b">>, obj |-> <<"b">>, rel_type |-> "uses"]}

SentencePool == {<<"a", " ", "b">>, <<"z">>}

\* what is found in one text, in reading order, of every kind
FindingPool ==
    {[kind |-> "direct", found |-> m] : m \in DirectMatchPool}
    \cup {[kind |-> "contextual", found |-> m] : m \in ContextualMatchPool}
    \cup {[kind |-> "triple", found |-> t] : t \in TriplePool}
    \cup {[kind |-> "sentence", found |-> s] : s \in SentencePool}

\* the findings of one kind, in their order
FoundOfKind(findings, kind) ==
    LET OfKind(f) == f.kind = kind
        selected == SelectSeq(findings, OfKind)
    IN  [i \in 1..Len(selected) |-> selected[i].found]

CuesPool ==
    {Cues(FoundOfKind(f, "direct"), FoundOfKind(f, "contextual"),
          FoundOfKind(f, "triple"), FoundOfKind(f, "sentence")) :
        f \in SeqsUpTo(FindingPool, MaxCues)}

\* indicator sums that let each diagram type win
PipelineIndicators ==
    {[t \in DiagramTypes |-> IF t = w THEN 60 ELSE 0] : w \in DiagramTypes}

\* the locals of a running parse_text
ParseFrame(entities, relationships) ==
    [entities |-> entities, relationships |-> relationships]

\* parse_text up to extract_entities: a blank text returns at once
BeginParseText ==
    /\ parsed.kind = "pending"
    /\ helper_frame = None
    /\ IF IsBlankArgument(text)
       THEN /\ parsed' = ParseText(text, Ok(<<>>))
            /\ helper_frame' = helper_frame
       ELSE /\ \E doc \in PipelineDocs :
                   helper_frame' = Some(ParseFrame(ExtractEntities(doc), None))
            /\ parsed' = parsed
    /\ UNCHANGED <<engineVars, docVars, text, helper_call, helper_result>>

\* relationships = self.identify_relationships(text, entities)
IdentifyRelationshipsInParse ==
    /\ parsed.kind = "pending"
    /\ helper_frame # None
    /\ helper_frame[1].relationships = None
    /\ \E cues \in CuesPool :
           helper_frame' =
               Some(ParseFrame(helper_frame[1].entities,
                               Some(IdentifyRelationships(cues, helper_frame[1].entities))))
    /\ UNCHANGED <<engineVars, docVars, parseVars, helper_call, helper_result>>

\* the rest of parse_text: type, suggestions, confidence and the return
ReturnParseText ==
    /\ parsed.kind = "pending"
    /\ helper_frame # None
    /\ helper_frame[1].relationships # None
    /\ \E indicators \in PipelineIndicators :
           LET entities == helper_frame[1].entities
               relationships == helper_frame[1].relationships[1]
           IN  parsed' =
                   ParseText(text,
                             Ok([entities |-> entities, relationships |-> relationships,
                                 indicators |-> indicators,
                                 confidence |-> CalculateConfidence(entities, relationships)]))
    /\ helper_frame' = None
    /\ UNCHANGED <<engineVars, docVars, text, helper_call, helper_result>>

\* DiagramEngine().generate_diagram(parsed_content)
CallGenerateDiagramOnParsed ==
    /\ parsed.kind = "returned"
    /\ outcome.kind = "idle"
    /\ CallGenerateDiagram(parsed.content)

NextParseGenerate ==
    \/ \E t \in PipelineTexts : CallParseText(t)
    \/ BeginParseText
    \/ IdentifyRelationshipsInParse
    \/ ReturnParseText
    \/ CallGenerateDiagramOnParsed
    \/ RunGenerateDiagram

SpecParseGenerate == Init /\ [][NextParseGenerate]_vars

ParsedEntityNames == {parsed.content[1].entities[i].name : i \in 1..Len(parsed.content[1].entities)}

\* every endpoint is the name of an extracted entity, no name is blank and
\* a parse with an entity has a confidence of 0.1 or more
ParsedContentSound ==
    LET c == parsed.content[1]
    IN  /\ \A i \in 1..Len(c.relationships) :
               /\ c.relationships[i].source \in ParsedEntityNames
               /\ c.relationships[i].target \in ParsedEntityNames
        /\ \A name \in ParsedEntityNames : Len(Strip(name)) > 0
        /\ Len(c.entities) > 0 => c.confidence >= MinConfidence
        /\ Len(c.entities) = 0 => Len(c.relationships) = 0

\* C21: whatever parse_text returns, generate_diagram given that result
\* returns a DiagramData exactly when an entity was extracted and raises
\* DiagramGenerationError of stage "input_validation" when none was, never a
\* DiagramValidationError; every relationship endpoint of the result is the
\* name of an extracted entity, names are not blank and a result with an
\* entity has confidence >= 0.1.
C21_ParsedContentGenerates ==
    /\ parsed.kind = "returned" => ParsedContentSound
    /\ (parsed.kind = "returned" /\ Finished)
       => /\ content = parsed.content
          /\ IF Len(parsed.content[1].entities) > 0
             THEN outcome.kind = "returned"
             ELSE /\ outcome.kind = "DiagramGenerationError"
                  /\ outcome.stage = "input_validation"

\* a parse with two entities and a relationship whose source was found by a
\* variation of its name went through generate_diagram
C21_Witness ==
    /\ parsed.kind = "returned"
    /\ Finished
    /\ outcome.kind = "returned"
    /\ Len(parsed.content[1].entities) >= 2
    /\ \E i \in 1..Len(parsed.content[1].relationships) :
           /\ parsed.content[1].relationships[i].source = <<"b">>
           /\ parsed.content[1].relationships[i].target = <<"A">>
           /\ parsed.content[1].relationships[i].type = "uses"
    /\ Len(outcome.diagram[1].edges) > 0

=============================================================================
